---- MODULE Spec2Model ----
(***************************************************************************)
(* The Doom64 adaptive-tree codec of wadutil64: Deflate_Decompress and     *)
(* Deflate_Encode with the tables, the window and the bit queue they share *)
(* as process-wide globals.                                                *)
(***************************************************************************)
EXTENDS FiniteSets, Integers, Naturals, Sequences, TLC

VARIABLES
    array01,      \* node weights, signed 16 bit, node n at array01 + 2n
    DecodeTable,  \* [left, right, parent]: the three tables of DecodeTable
    allocPtr,     \* the window; only the non-zero cells are stored
    decoder,      \* decoder_t: var0, var1 and readPos (as an offset)
    decIn,        \* the buffer Deflate_Decompress reads (input)
    decTail,      \* the memory that follows decIn
    newSize,      \* the size the caller allocated for the output buffer
    decOut,       \* the bytes written from decoder.write on; writePos = Len
    decHead,      \* incrBit of Deflate_Decompress
    v0,           \* v[0] / s[0] of Deflate_Decompress: the symbol in hand
    copy,         \* s[0], s[1], s[2], s[3], s[8] of the copy loop
    BinCode,      \* the queue of pending bits
    OutFile,      \* the bytes written to the file "out"
    OutputSize,   \* static int OutputSize
    encIn,        \* the buffer Deflate_Encode reads (input)
    encTail,      \* the memory that follows encIn
    encSize,      \* the parameter size
    incrBit,      \* incrBit of Deflate_Encode
    incrBitFile,  \* incrBitFile of Deflate_Encode
    pc,           \* position of the process
    entries,      \* number of entries started so far
    decFrom,      \* where decIn came from: "file" or "raw"
    encSyms,      \* history: the symbols emitted by the running/last encode
    decSyms,      \* history: the leaves decoded by the running/last decode
    firstRun,     \* history: input and output of the first entry's decode
    given,        \* the inputs drawn for a run of one function; <<>> otherwise
    wad           \* decompress_WAD / pad_WAD: header, directory, output

treeVars == <<array01, DecodeTable>>
decVars == <<decoder, decIn, decTail, newSize, decOut, decHead, v0, copy,
             decFrom, decSyms>>
encVars == <<BinCode, OutFile, OutputSize, encIn, encTail, encSize, incrBit,
             incrBitFile, encSyms>>
codecVars == <<treeVars, allocPtr, decVars, encVars, pc, entries, firstRun,
               given>>
vars == <<codecVars, wad>>

\* ------------------------------------------------------------------------
\* Program constants
\* ------------------------------------------------------------------------
NumNodes == 1257
FirstLeaf == 629
EndLeaf == 885
FirstMatchLeaf == 886
BandSize == 62
TableEntries == 631
RescaleAt == 2000
Prelude == 14
SearchDepth == 1024
MaxCount == 64
MinCount == 3
Max == 21903

\* ------------------------------------------------------------------------
\* Integer helpers
\* ------------------------------------------------------------------------
\* value of a C int stored into a signed short
Short(x) == ((x + 32768) % 65536) - 32768

RECURSIVE Pow2(_)
Pow2(n) == IF n = 0 THEN 1 ELSE 2 * Pow2(n - 1)

\* bit b of a non-negative value
BitOf(x, b) == (x \div Pow2(b)) % 2

\* ------------------------------------------------------------------------
\* Deflate_InitDecodeTable
\* ------------------------------------------------------------------------
\* widths that grow by one bit a bucket
array05Narrow(k) == 4 + k

\* array05: the extra-bit widths
array05(k) == 4 + 2 * k

\* the base offsets accumulated with the width of the bucket itself
RECURSIVE tableVar01Own(_)
tableVar01Own(k) ==
    IF k = 0 THEN 0 ELSE tableVar01Own(k - 1) + Pow2(array05(k))

\* tableVar01 + 4k: the base offsets, accumulated as the initializer does
RECURSIVE tableVar01(_)
tableVar01(k) == IF k = 0 THEN 0 ELSE tableVar01(k - 1) + Pow2(array05(k - 1))

\* tableVar01 + 0x34: the window size
WindowSize == tableVar01(6) - 1 + 64

\* a tree is the record of the four tables; rescales is history: the
\* number of times Deflate_CheckTable has halved the weights of this tree
InitDecodeTable(t) ==
    [weight |-> [n \in 1..NumNodes |-> IF n >= 2 THEN 1 ELSE t.weight[n]],
     parent |-> [n \in 1..NumNodes |-> IF n >= 2 THEN n \div 2 ELSE t.parent[n]],
     left   |-> [i \in 1..TableEntries |->
                    IF 2 * i + 1 < 1259 THEN 2 * i ELSE t.left[i]],
     right  |-> [i \in 1..TableEntries |->
                    IF 2 * i + 1 < 1259 THEN 2 * i + 1 ELSE t.right[i]],
     rescales |-> 0]

\* the tables of a process that has not run the codec yet (static storage)
ZeroTree ==
    [weight |-> [n \in 1..NumNodes |-> 0],
     parent |-> [n \in 1..NumNodes |-> 0],
     left   |-> [i \in 1..TableEntries |-> 0],
     right  |-> [i \in 1..TableEntries |-> 0],
     rescales |-> 0]

Tree == [weight |-> array01, parent |-> DecodeTable.parent,
         left |-> DecodeTable.left, right |-> DecodeTable.right,
         rescales |-> 0]

\* ------------------------------------------------------------------------
\* Deflate_CheckTable
\* ------------------------------------------------------------------------
\* the other child of the parent of n
Sibling(t, n) ==
    LET q == t.parent[n]
    IN  IF t.left[q] = n THEN t.right[q] ELSE t.left[q]

\* the do-while loop: recompute the weights from a0 up to the root
RECURSIVE CheckTableLoop(_, _, _)
CheckTableLoop(t, a0, a1) ==
    LET q  == t.parent[a0]
        t2 == [t EXCEPT !.weight[q] = Short(t.weight[a1] + t.weight[a0])]
    IN  IF q = 1 THEN t2 ELSE CheckTableLoop(t2, q, Sibling(t2, q))

\* every weight halved and rounded up
HalveAllUp(t) ==
    [t EXCEPT !.weight = [n \in 1..NumNodes |-> (t.weight[n] + 1) \div 2],
              !.rescales = @ + 1]

\* the root and the 1256 nodes after it, each shifted right by one
HalveAll(t) ==
    [t EXCEPT !.weight = [n \in 1..NumNodes |-> t.weight[n] \div 2],
              !.rescales = @ + 1]

CheckTable(t, a0, a1) ==
    LET t2 == CheckTableLoop(t, a0, a1)
    IN  IF t2.weight[1] # RescaleAt THEN t2 ELSE HalveAll(t2)

\* ------------------------------------------------------------------------
\* Deflate_DecodeByte
\* ------------------------------------------------------------------------
\* the exchange without the new child entry of the grandparent
SwapWithUncleLost(t, a2, s0) ==
    LET q   == t.parent[a2]
        g   == t.parent[q]
        sib == Sibling(t, a2)
        t2  == IF a2 = t.left[q] THEN [t EXCEPT !.left[q] = s0]
                                 ELSE [t EXCEPT !.right[q] = s0]
        t3  == [t2 EXCEPT !.parent[s0] = q, !.parent[a2] = g]
    IN  CheckTable(t3, s0, sib)

\* exchange node a2 with the sibling s0 of its parent, then recompute
SwapWithUncle(t, a2, s0) ==
    LET q   == t.parent[a2]
        g   == t.parent[q]
        sib == Sibling(t, a2)
        t1  == IF q = t.left[g] THEN [t EXCEPT !.right[g] = a2]
                                 ELSE [t EXCEPT !.left[g] = a2]
        t2  == IF a2 = t1.left[q] THEN [t1 EXCEPT !.left[q] = s0]
                                  ELSE [t1 EXCEPT !.right[q] = s0]
        t3  == [t2 EXCEPT !.parent[s0] = q, !.parent[a2] = g]
    IN  CheckTable(t3, s0, sib)

\* the do-while loop of Deflate_DecodeByte, entered with parent[a2] # 1
RECURSIVE DecodeByteLoop(_, _)
DecodeByteLoop(t, a2) ==
    LET q    == t.parent[a2]
        g    == t.parent[q]
        s0   == IF q = t.left[g] THEN t.right[g] ELSE t.left[g]
        swap == t.weight[s0] < t.weight[a2]
        t2   == IF swap THEN SwapWithUncle(t, a2, s0) ELSE t
        nxt  == IF swap THEN t2.parent[s0] ELSE t2.parent[a2]
    IN  IF t2.parent[nxt] = 1 THEN t2 ELSE DecodeByteLoop(t2, nxt)

\* the weights are recomputed whatever the parent of the leaf is
DecodeByteChecked(t, a0) ==
    LET a2 == a0 + FirstLeaf
        t1 == [t EXCEPT !.weight[a2] = Short(t.weight[a2] + 1)]
        t2 == CheckTable(t1, a2, Sibling(t1, a2))
    IN  IF t1.parent[a2] = 1 THEN t2 ELSE DecodeByteLoop(t2, a2)

\* a0 is the leaf id minus 0x275
DecodeByte(t, a0) ==
    LET a2 == a0 + FirstLeaf
        t1 == [t EXCEPT !.weight[a2] = Short(t.weight[a2] + 1)]
    IN  IF t1.parent[a2] = 1 THEN t1
        ELSE DecodeByteLoop(CheckTable(t1, a2, Sibling(t1, a2)), a2)

\* ------------------------------------------------------------------------
\* Memory
\* ------------------------------------------------------------------------
\* byte i of a buffer; past its end the read returns what the memory that
\* follows the buffer holds (tail, repeated)
ByteAt(buf, tail, i) ==
    IF i < Len(buf) THEN buf[i + 1]
    ELSE tail[((i - Len(buf)) % Len(tail)) + 1]

\* allocPtr is static storage: a cell never written holds 0
Cell(w, i) == IF i \in DOMAIN w THEN w[i] ELSE 0

Put(w, i, b) ==
    IF b # 0 THEN (i :> b) @@ w
    ELSE IF i \in DOMAIN w THEN [x \in (DOMAIN w) \ {i} |-> w[x]]
    ELSE w

\* ------------------------------------------------------------------------
\* Bit reader: Deflate_GetDecodeByte, Deflate_DecodeScan, Deflate_RescanByte
\* ------------------------------------------------------------------------
OVERFLOWCHECK == 2147483647

\* returns <<byte, decoder>>
GetDecodeByte(d) ==
    IF ~(d.readPos < OVERFLOWCHECK) THEN <<255, d>>
    ELSE <<ByteAt(decIn, decTail, d.readPos), [d EXCEPT !.readPos = @ + 1]>>

\* the bits of var1 taken from its lowest place up
DecodeScanLow(d) ==
    LET resultbyte == d.var0
        d1 == [d EXCEPT !.var0 = resultbyte - 1]
        g  == GetDecodeByte(d1)
        d2 == IF resultbyte < 1
              THEN [g[2] EXCEPT !.var1 = g[1], !.var0 = 7]
              ELSE d1
        b  == IF d2.var1 % 2 = 1 THEN 1 ELSE 0
    IN  <<b, [d2 EXCEPT !.var1 = d2.var1 \div 2]>>

\* returns <<bit, decoder>>
DecodeScan(d) ==
    LET resultbyte == d.var0
        d1 == [d EXCEPT !.var0 = resultbyte - 1]
        g  == GetDecodeByte(d1)
        d2 == IF resultbyte < 1
              THEN [g[2] EXCEPT !.var1 = g[1], !.var0 = 7]
              ELSE d1
        b  == IF (d2.var1 \div 128) % 2 = 1 THEN 1 ELSE 0
    IN  <<b, [d2 EXCEPT !.var1 = d2.var1 * 2]>>

\* returns <<resultbyte, decoder>>; i bits read so far, shift = 2^i
RECURSIVE RescanLoop(_, _, _, _, _)
RescanLoop(byte, i, shift, resultbyte, d) ==
    LET s  == DecodeScan(d)
        r2 == IF s[1] # 0 THEN resultbyte + shift ELSE resultbyte
    IN  IF i + 1 = byte THEN <<r2, s[2]>>
        ELSE RescanLoop(byte, i + 1, shift * 2, r2, s[2])

RescanByte(byte, d) ==
    IF byte <= 0 THEN <<0, d>> ELSE RescanLoop(byte, 0, 1, 0, d)

\* ------------------------------------------------------------------------
\* Deflate_StartDecodeByte
\* ------------------------------------------------------------------------
\* the walk from lookup down to a leaf; returns <<leaf, decoder>>
RECURSIVE TreeWalk(_, _, _)
TreeWalk(t, lookup, d) ==
    IF ~(lookup < FirstLeaf) THEN <<lookup, d>>
    ELSE LET s == DecodeScan(d)
         IN  TreeWalk(t, IF s[1] = 0 THEN t.left[lookup] ELSE t.right[lookup],
                      s[2])

\* the value added to the leaf id: (signed short)0xFD8B
LeafBias == Short(64907)

\* returns [lookup, leaf, d, t]
StartDecodeByte(t, d) ==
    LET w == TreeWalk(t, 1, d)
        lookup == w[1] + LeafBias
    IN  [lookup |-> lookup, leaf |-> w[1], d |-> w[2],
         t |-> DecodeByte(t, lookup)]

\* ------------------------------------------------------------------------
\* Deflate_WriteOutput and the match fields of Deflate_Decompress
\* ------------------------------------------------------------------------
WriteOutput(out, outByte) ==
    IF ~(Len(out) < OVERFLOWCHECK) THEN out ELSE Append(out, outByte)

\* the count taken one too low
MatchFieldsLow(s0) ==
    LET t2  == s0 + Short(65279)
        div == t2 \div BandSize
        mul == div * BandSize
    IN  [div |-> div, bits |-> array05(div),
         s8 |-> (s0 - mul) + Short(65281)]

\* the fields Deflate_Decompress derives from a match symbol s0 (> 256):
\* the bucket, the number of extra bits and the count
MatchFields(s0) ==
    LET t2  == s0 + Short(65279)
        div == t2 \div BandSize
        mul == div * BandSize
    IN  [div |-> div, bits |-> array05(div),
         s8 |-> (s0 - mul) + Short(65282)]

\* ------------------------------------------------------------------------
\* MakeByte, MakeBinary, MakeExtraBinary
\* ------------------------------------------------------------------------
\* the first entry of the queue packed into the lowest bit
PackByteLow(q) ==
    LET Bit(i) == IF q[i + 1] # 0 THEN Pow2(i) ELSE 0
    IN  Bit(0) + Bit(1) + Bit(2) + Bit(3) + Bit(4) + Bit(5) + Bit(6) + Bit(7)

\* the byte packed from the first eight entries of the queue
PackByte(q) ==
    LET Bit(i) == IF q[(7 - i) + 1] # 0 THEN Pow2(i) ELSE 0
    IN  Bit(0) + Bit(1) + Bit(2) + Bit(3) + Bit(4) + Bit(5) + Bit(6) + Bit(7)

\* st = [q, f, n]: BinCode, the file, OutputSize
RECURSIVE MakeByte(_)
MakeByte(st) ==
    IF Len(st.q) < 8 THEN st
    ELSE MakeByte([q |-> SubSeq(st.q, 9, Len(st.q)),
                   f |-> Append(st.f, PackByte(st.q)),
                   n |-> st.n + 1])

\* a scan that stops half way through the table
FindInHalf(tab, x) ==
    LET hits == {i \in 1..(TableEntries \div 2) : tab[i] = x}
    IN  IF hits = {} THEN 0 ELSE CHOOSE i \in hits : \A k \in hits : i <= k

\* first index of the table that holds x, 0 if none
FindIn(tab, x) ==
    LET hits == {i \in 1..TableEntries : tab[i] = x}
    IN  IF hits = {} THEN 0 ELSE CHOOSE i \in hits : \A k \in hits : i <= k

\* the while(1) loop of MakeBinary: Binary[] holds the steps leaf to root.
\* Returns [Binary, ok]; ok is FALSE when lookup is in neither table, where
\* the loop of the source never ends.
RECURSIVE MakeBinaryLoop(_, _, _)
MakeBinaryLoop(t, lookup, Binary) ==
    IF lookup <= 1 THEN [Binary |-> Binary, ok |-> TRUE]
    ELSE LET i1 == FindIn(t.left, lookup)
             l1 == IF i1 # 0 THEN i1 ELSE lookup
             b1 == IF i1 # 0 THEN Append(Binary, 0) ELSE Binary
             i2 == FindIn(t.right, l1)
             l2 == IF i2 # 0 THEN i2 ELSE l1
             b2 == IF i2 # 0 THEN Append(b1, 1) ELSE b1
         IN  IF i1 = 0 /\ i2 = 0 THEN [Binary |-> Binary, ok |-> FALSE]
             ELSE MakeBinaryLoop(t, l2, b2)

\* Binary[] is sent from its last entry down to its first
Reverse(sq) == [i \in 1..Len(sq) |-> sq[Len(sq) + 1 - i]]

\* the bits of lookup, root first
CodeOf(t, lookup) == Reverse(MakeBinaryLoop(t, lookup, <<>>).Binary)

\* byte Binary[16]: the number of steps the buffer of MakeBinary holds
BinarySize == 16

\* what the copy loops may read back after the steps b were stored: the
\* entries from Binary[16] on were written outside the buffer, so each of
\* them may read back as either bit
Stored(b) ==
    IF Len(b) <= BinarySize THEN {b}
    ELSE {[i \in 1..Len(b) |-> IF i <= BinarySize THEN b[i] ELSE x[i]] :
             x \in [(BinarySize + 1)..Len(b) -> {0, 1}]}

\* the bit sequences MakeBinary may copy out for lookup
Codes(t, lookup) ==
    {Reverse(b) : b \in Stored(MakeBinaryLoop(t, lookup, <<>>).Binary)}

\* a padding of one bits
PadToByteOnes(q, Code) ==
    LET pow == Len(q) % 8
    IN  IF Code = EndLeaf /\ pow # 0
        THEN q \o [i \in 1..(8 - pow) |-> 1]
        ELSE q

\* the padding appended when Code is the end symbol
PadToByte(q, Code) ==
    LET pow == Len(q) % 8
    IN  IF Code = EndLeaf /\ pow # 0
        THEN q \o [i \in 1..(8 - pow) |-> 0]
        ELSE q

\* MakeBinary(lookup, true) when code is copied out: returns [q, t, code]
MakeBinary(t, q, lookup, code) ==
    [q |-> PadToByte(q \o code, lookup),
     t |-> DecodeByte(t, lookup + LeafBias),
     code |-> code]

\* MakeBinary(lookup, false): what BinaryTest may hold afterwards
BinaryTest(t, lookup) == Codes(t, lookup)

\* the bits of Value queued from bit Shift - 1 down
MakeExtraBinaryHigh(q, Value, Shift) ==
    LET pixel == Value % 65536
    IN  q \o [b \in 1..Shift |-> BitOf(pixel, Shift - b)]

MakeExtraBinary(q, Value, Shift) ==
    LET pixel == Value % 65536
    IN  q \o [b \in 1..Shift |-> BitOf(pixel, b - 1)]

\* ------------------------------------------------------------------------
\* Deflate_Encode: tables and the match search
\* ------------------------------------------------------------------------
\* the values InitCountTable stores in row i, less i
CountBase == <<0, 16, 80, 336, 1360, 5456>>

\* int CountTable[64][6]: the number of rows of the array
CountRows == 64

\* what the objects that follow CountTable in memory may hold, read as an
\* int: zero, or the bytes 1, 0, 1, 0
PastInts == {0, 65537}

\* what the reads of CountTable[i][0..5] in one pass may return.
\* InitCountTable fills the rows 0..0x40; row 64 lies past the end of the
\* array, so a read of it returns what InitCountTable stored there or what
\* the objects at that place hold now.
CountTable(i) ==
    {[m \in 0..5 |-> CountBase[m + 1] + i]}
    \cup (IF i < CountRows THEN {} ELSE {[m \in 0..5 |-> v] : v \in PastInts})

ShiftVal == <<15, 63, 255, 1023, 4095, 16383>>

\* the first symbol of the band chosen by Shift = 4 + 2m
BandCode == <<886, 948, 1010, 1072, 1134, 1196>>

InByte(i) == ByteAt(encIn, encTail, i)

\* In the operators below e is the state of Deflate_Encode in its loops:
\* e.w is the window, e.bit is incrBit and e.file is incrBitFile.

\* the l loop for one j and k: every one of the j bytes compares equal
MatchesAt(e, j, k) ==
    /\ (k - j) >= 0
    /\ \A l \in 0..(j - 1) :
          Cell(e.w, (k - j) + l) = InByte(e.file + l)

\* the values of k tried for j; those below j stop at offset < 0
KRange(e, j) ==
    LET minval == e.bit - SearchDepth
    IN  (IF minval > j THEN minval ELSE j)..e.bit

\* the k loop for one j sets copy
HitAt(e, j) == \E k \in KRange(e, j) : MatchesAt(e, j, k)

\* the j loop runs downwards and stops at the first j whose k loop hits
SearchJ(e) ==
    MaxCount
    - (CHOOSE d \in 0..(MaxCount - MinCount) :
          /\ HitAt(e, MaxCount - d)
          /\ \A x \in 0..(d - 1) : ~HitAt(e, MaxCount - x))

\* the k loop runs downwards from incrBit and stops at its first hit
SearchK(e, j) ==
    e.bit
    - (CHOOSE d \in 0..SearchDepth :
          /\ MatchesAt(e, j, e.bit - d)
          /\ \A x \in 0..(d - 1) : ~MatchesAt(e, j, e.bit - x))

\* the three nested loops: j downwards, k downwards, first hit wins. The
\* loops leave j and k one below the hit and offset at its last byte.
Search(e) ==
    IF ~(\E j \in MinCount..MaxCount : HitAt(e, j))
    THEN [copy |-> FALSE, j |-> 2, offset |-> 0]
    ELSE CHOOSE r \in {[copy |-> TRUE, j |-> jf - 1,
                        offset |-> (SearchK(e, jf) - jf) + (jf - 1)] :
                          jf \in {SearchJ(e)}} : TRUE

\* the loop over m: the first bucket whose range holds rest, 6 if none
Bucket(rest, row) ==
    LET ms == {m \in 0..5 : rest <= row[m] + ShiftVal[m + 1]}
    IN  IF ms = {} THEN 6 ELSE CHOOSE m \in ms : \A x \in ms : m <= x

\* the check walk: follow BinaryTest from the root
RECURSIVE WalkBits(_, _, _, _)
WalkBits(t, lookup, bits, bin) ==
    IF ~(lookup < FirstLeaf) THEN lookup
    ELSE WalkBits(t, IF bits[bin + 1] = 0 THEN t.left[lookup]
                                          ELSE t.right[lookup],
                  bits, bin + 1)

\* the index i after h increments, each of which wraps Max to 0
Step(i, h) == IF i < Max /\ ~(i + h < Max) THEN (i + h) - Max ELSE i + h

\* the verification loop on the window w, passes l to s3 - 1: each pass
\* compares a window byte with an input byte, stops the loop where they
\* differ and else stores the byte; returns [w, make]
RECURSIVE Replay(_, _, _, _, _, _)
Replay(e, w, s0, s1, l, s3) ==
    IF l = s3 THEN [w |-> w, make |-> TRUE]
    ELSE IF l + 1 = s3
    THEN LET a0 == Cell(w, s0)
         IN  IF a0 = InByte(e.file + l)
             THEN [w |-> Put(w, s1, a0), make |-> TRUE]
             ELSE [w |-> w, make |-> FALSE]
    ELSE LET h == (s3 - l) \div 2
         IN  CHOOSE r \in {IF x.make
                           THEN Replay(e, x.w, Step(s0, h), Step(s1, h),
                                       l + h, s3)
                           ELSE x :
                              x \in {Replay(e, w, s0, s1, l, l + h)}} : TRUE

\* the for loop that stores the count matched bytes, without wrapping
RECURSIVE StoreRun(_, _, _, _)
StoreRun(w, bit, file, n) ==
    IF n = 0 THEN w
    ELSE IF n = 1 THEN Put(w, bit, InByte(file))
    ELSE LET h == n \div 2
         IN  CHOOSE r \in {StoreRun(w2, bit + h, file + h, n - h) :
                              w2 \in {StoreRun(w, bit, file, h)}} : TRUE

\* the symbol of the match found: Code
MatchCode(e, sr, row) ==
    LET rest  == e.bit - (sr.offset - sr.j)
        count == sr.j + 1
    IN  BandCode[Bucket(rest, row) + 1] + (count - 3)

\* everything the copy branch computes before it emits, when the search
\* returned sr, the reads of CountTable[count] return row and BinaryTest
\* holds bt
MatchPlan(e, bt, sr, row) ==
    LET rest     == e.bit - (sr.offset - sr.j)
        count    == sr.j + 1
        m        == Bucket(rest, row)
        Shift    == 4 + 2 * m
        ValExtra == rest - row[m]
        Code     == BandCode[m + 1] + (count - 3)
        lookup   == WalkBits(e.t, 1, bt, 0)
        mf       == MatchFields(lookup + LeafBias)
        v1       == (tableVar01(mf.div) + ValExtra) + mf.s8
        a0       == e.bit - v1
        rp       == IF mf.s8 > 0
                    THEN Replay(e, e.w, IF a0 < 0 THEN a0 + Max ELSE a0,
                                e.bit, 0, mf.s8)
                    ELSE [w |-> e.w, make |-> FALSE]
    IN  CHOOSE r \in {[count |-> count, rest |-> rest, m |-> m,
                       Shift |-> Shift, ValExtra |-> ValExtra, Code |-> Code,
                       lookup |-> lookup, w |-> x.w, make |-> x.make] :
                         x \in {rp}} : TRUE

MatchPlans(e, sr) ==
    UNION {{MatchPlan(e, bt, sr, row) :
                bt \in BinaryTest(e.t, MatchCode(e, sr, row))} :
              row \in CountTable(sr.j + 1)}

\* ------------------------------------------------------------------------
\* Bounds of the model and the inputs drawn from them
\* ------------------------------------------------------------------------
MaxSize == 17
MaxEntries == 2
MaxOob == 1

\* raw entries: a run of one byte, or three bytes repeated
RawByte(kind, i) == IF kind = 1 THEN 65 ELSE 65 + (i % 3)
RawSizes == {0, 1, Prelude - 1} \cup (Prelude..MaxSize)
RawInputs == {[i \in 1..n |-> RawByte(kind, i - 1)] :
                 n \in RawSizes, kind \in {1, 2}}

\* what the memory after a buffer may hold
Tails == {<<0>>, <<65>>}
OobTails == {<<0>>, <<255>>}

\* the raw entries of a process that handles several entries
RepeatInputs == {raw \in RawInputs : Len(raw) \in {1, MaxSize}}

\* compressed entries not made by this encoder, with the size the
\* directory declares for them:
\*   match(length 61, bucket 5, extra 16383), literal 65, end
\*   literal 65, match(length 3, bucket 1, extra 0), end
\*   literals 65 66 67, match(length 3, bucket 0, extra 0), end
\*   literal 65, literal 66, end           (declared one byte long)
\*   the first byte of the stream above    (a truncated entry)
Streams == {[in |-> <<57, 191, 255, 219, 103, 80>>, size |-> 62],
            [in |-> <<91, 54, 128, 110, 160>>, size |-> 4],
            [in |-> <<91, 103, 194, 236, 8, 32>>, size |-> 6],
            [in |-> <<91, 101, 117>>, size |-> 1],
            [in |-> <<91>>, size |-> 2]}

\* ------------------------------------------------------------------------
\* History variables
\* ------------------------------------------------------------------------
FreshTree == InitDecodeTable(ZeroTree)

\* the entries of a tree that differ from FreshTree; two trees are equal
\* exactly when their deltas are
TreeDelta(t) ==
    {<<"weight", n, t.weight[n]>> :
        n \in {x \in 1..NumNodes : t.weight[x] # FreshTree.weight[x]}}
    \cup {<<"parent", n, t.parent[n]>> :
        n \in {x \in 1..NumNodes : t.parent[x] # FreshTree.parent[x]}}
    \cup {<<"left", n, t.left[n]>> :
        n \in {x \in 1..TableEntries : t.left[x] # FreshTree.left[x]}}
    \cup {<<"right", n, t.right[n]>> :
        n \in {x \in 1..TableEntries : t.right[x] # FreshTree.right[x]}}

\* one emitted symbol: its leaf, its code bits, its extra bits, the number
\* of input bytes it stands for and the tree after it
SymRec(leaf, code, extra, n, t) ==
    [leaf |-> leaf, code |-> code, extra |-> extra, n |-> n,
     snap |-> TreeDelta(t)]

NoRun == [in |-> <<>>, tail |-> <<>>, size |-> -1, out |-> <<>>]

\* no archive is open
NoWad ==
    [op |-> "closed", at |-> "", input |-> <<>>, numlumps |-> 0,
     lump_directory |-> <<>>, total_size |-> 0, decode_mode |-> "",
     i |-> 0, body |-> <<>>, calls |-> <<>>, written |-> <<>>,
     header |-> <<>>]

\* ------------------------------------------------------------------------
\* Initial state: a process that has not yet run the codec
\* ------------------------------------------------------------------------
Construct ==
    /\ array01 = ZeroTree.weight
    /\ DecodeTable = [left |-> ZeroTree.left, right |-> ZeroTree.right,
                      parent |-> ZeroTree.parent]
    /\ allocPtr = <<>>
    /\ decoder = [var0 |-> 0, var1 |-> 0, readPos |-> 0]
    /\ decIn = <<>>
    /\ decTail = <<0>>
    /\ newSize = 0
    /\ decOut = <<>>
    /\ decHead = 0
    /\ v0 = 0
    /\ copy = [s0 |-> 0, s1 |-> 0, s2 |-> 0, s3 |-> 0, s8 |-> 0]
    /\ BinCode = <<>>
    /\ OutFile = <<>>
    /\ OutputSize = 0
    /\ encIn = <<>>
    /\ encTail = <<0>>
    /\ encSize = 0
    /\ incrBit = 0
    /\ incrBitFile = 0
    /\ pc = "idle"
    /\ entries = 0
    /\ decFrom = "none"
    /\ encSyms = <<>>
    /\ decSyms = <<>>
    /\ firstRun = NoRun
    /\ wad = NoWad

Init == Construct /\ given = <<>>

SetTree(t) ==
    /\ array01' = t.weight
    /\ DecodeTable' = [left |-> t.left, right |-> t.right,
                       parent |-> t.parent]

Between == pc \in {"idle", "enc_done", "dec_done"} /\ entries < MaxEntries

\* ------------------------------------------------------------------------
\* Deflate_Encode
\* ------------------------------------------------------------------------
\* MakeBinary(Code) followed by MakeByte(): returns [q, f, n, t, code]
EmitSymbol(t, q, f, n, Code, code) ==
    LET mb == MakeBinary(t, q, Code, code)
        st == MakeByte([q |-> mb.q, f |-> f, n |-> n])
    IN  [q |-> st.q, f |-> st.f, n |-> st.n, t |-> mb.t, code |-> mb.code]

EmitSymbols(t, q, f, n, Code) ==
    {EmitSymbol(t, q, f, n, Code, code) : code \in Codes(t, Code)}

\* entry: InitCountTable, Deflate_InitDecodeTable, fopen
EncodeBegin(raw, tail) ==
    /\ Between
    /\ encIn' = raw
    /\ encTail' = tail
    /\ encSize' = Len(raw)
    /\ SetTree(InitDecodeTable(Tree))
    /\ decoder' = [decoder EXCEPT !.var0 = 0, !.var1 = 0]
    /\ OutFile' = <<>>
    /\ incrBit' = 0
    /\ incrBitFile' = 0
    /\ encSyms' = <<>>
    /\ entries' = entries + 1
    /\ pc' = "enc_prelude"
    /\ UNCHANGED <<allocPtr, decIn, decTail, newSize, decOut, decHead, v0,
                   copy, decFrom, decSyms, BinCode, OutputSize, firstRun, given,
                   wad>>

\* the state of Deflate_Encode in its loops: the tree, the window, BinCode,
\* the file, OutputSize, incrBit, incrBitFile (and the symbols emitted)
Enc ==
    [t |-> Tree, w |-> allocPtr, q |-> BinCode, f |-> OutFile,
     n |-> OutputSize, bit |-> incrBit, file |-> incrBitFile,
     syms |-> encSyms]

SetEnc(e) ==
    /\ SetTree(e.t)
    /\ allocPtr' = e.w
    /\ BinCode' = e.q
    /\ OutFile' = e.f
    /\ OutputSize' = e.n
    /\ incrBit' = e.bit
    /\ incrBitFile' = e.file
    /\ encSyms' = e.syms

\* store input[incrBitFile] at incrBit of the window w and emit it as a
\* literal
LiteralStep(e, w, wrap) ==
    {[t |-> x.t, w |-> Put(w, e.bit, b), q |-> x.q, f |-> x.f, n |-> x.n,
      bit |-> IF wrap /\ e.bit + 1 = Max THEN 0 ELSE e.bit + 1,
      file |-> e.file + 1,
      syms |-> Append(e.syms, SymRec(b + FirstLeaf, x.code, <<>>, 1, x.t))] :
        b \in {InByte(e.file)},
        x \in EmitSymbols(e.t, e.q, e.f, e.n, InByte(e.file) + FirstLeaf)}

\* the branch at make: emit the match mp and store its bytes
MatchStep(e, mp) ==
    {[t |-> x.t, w |-> StoreRun(mp.w, e.bit, e.file, mp.count),
      q |-> y.q, f |-> y.f, n |-> y.n,
      bit |-> IF ~(e.bit + mp.count < Max) THEN (e.bit + mp.count) - Max
              ELSE e.bit + mp.count,
      file |-> e.file + mp.count,
      syms |-> Append(e.syms,
                      SymRec(mp.Code, x.code,
                             MakeExtraBinary(<<>>, mp.ValExtra, mp.Shift),
                             mp.count, x.t))] :
        <<x, y>> \in
            {<<z, MakeByte([q |-> MakeExtraBinary(z.q, mp.ValExtra, mp.Shift),
                            f |-> z.f, n |-> z.n])>> :
                z \in EmitSymbols(e.t, e.q, e.f, e.n, mp.Code)}}

\* a pass of the main loop that ends in a literal: no match found, or a
\* match that the verification loop rejects
LiteralPass(e) ==
    UNION {IF sr.copy
           THEN UNION {LiteralStep(e, mp.w, TRUE) :
                          mp \in {x \in MatchPlans(e, sr) : ~x.make}}
           ELSE LiteralStep(e, e.w, TRUE) :
             sr \in {Search(e)}}

\* a pass of the main loop that emits a match
MatchPass(e) ==
    UNION {IF sr.copy
           THEN UNION {MatchStep(e, mp) :
                          mp \in {x \in MatchPlans(e, sr) : x.make}}
           ELSE {} :
             sr \in {Search(e)}}

\* a pass of the main loop, none when the loop has ended
MainPass(e) ==
    IF e.file > encSize THEN {} ELSE LiteralPass(e) \cup MatchPass(e)

\* n passes of the main loop, starting from any state of S
RECURSIVE MainPasses(_, _)
MainPasses(S, n) ==
    IF n = 0 THEN S
    ELSE IF n = 1 THEN UNION {MainPass(e) : e \in S}
    ELSE CHOOSE r \in {MainPasses(h, n - (n \div 2)) :
                          h \in {MainPasses(S, n \div 2)}} : TRUE

\* n passes of the first loop, starting from any state of S
RECURSIVE FirstPasses(_, _)
FirstPasses(S, n) ==
    IF n = 0 THEN S
    ELSE CHOOSE r \in {FirstPasses(h, n - 1) :
                          h \in {UNION {LiteralStep(e, e.w, FALSE) : e \in S}}} :
             TRUE

\* one pass of the first loop
EncodePrelude ==
    /\ pc = "enc_prelude"
    /\ \E e \in LiteralStep(Enc, allocPtr, FALSE) : SetEnc(e)
    /\ pc' = IF incrBitFile + 1 < Prelude THEN "enc_prelude" ELSE "enc_main"
    /\ UNCHANGED <<encIn, encTail, encSize, decVars, entries, firstRun, given, wad>>

\* the break of the main loop
EncodeBreak ==
    /\ pc = "enc_main"
    /\ incrBitFile > encSize
    /\ pc' = "enc_end"
    /\ UNCHANGED <<treeVars, allocPtr, decVars, encVars, entries, firstRun, given,
                   wad>>

\* one pass of the main loop that ends in a literal
EncodeLiteral ==
    /\ pc = "enc_main"
    /\ ~(incrBitFile > encSize)
    /\ \E e \in LiteralPass(Enc) : SetEnc(e)
    /\ pc' = "enc_main"
    /\ UNCHANGED <<encIn, encTail, encSize, decVars, entries, firstRun, given, wad>>

\* one pass of the main loop that emits a match
EncodeMatch ==
    /\ pc = "enc_main"
    /\ ~(incrBitFile > encSize)
    /\ \E e \in MatchPass(Enc) : SetEnc(e)
    /\ pc' = "enc_main"
    /\ UNCHANGED <<encIn, encTail, encSize, decVars, entries, firstRun, given, wad>>

\* the alignment without the test of Aling4
AlignBytesAlways(n) == [i \in 1..(4 - (n % 4)) |-> 0]

\* the bytes that bring the file to a multiple of four
AlignBytes(n) ==
    LET Aling4 == n % 4
    IN  IF Aling4 # 0 THEN [i \in 1..(4 - Aling4) |-> 0] ELSE <<>>

\* the end symbol, the alignment and fclose
EncodeFinish ==
    /\ pc = "enc_end"
    /\ \E e \in EmitSymbols(Tree, BinCode, OutFile, OutputSize, EndLeaf) :
           /\ SetTree(e.t)
           /\ BinCode' = e.q
           /\ OutFile' = e.f \o AlignBytes(e.n)
           /\ OutputSize' = e.n
           /\ encSyms' = Append(encSyms, SymRec(EndLeaf, e.code, <<>>, 0, e.t))
    /\ pc' = "enc_done"
    /\ UNCHANGED <<allocPtr, encIn, encTail, encSize, incrBit, incrBitFile,
                   decVars, entries, firstRun, given, wad>>

\* ------------------------------------------------------------------------
\* Deflate_Decompress
\* ------------------------------------------------------------------------
\* entry: Deflate_InitDecodeTable and the set-up of the decoder fields
DecompressBegin(in, tail, size, from) ==
    /\ Between
    /\ decIn' = in
    /\ decTail' = tail
    /\ newSize' = size
    /\ decFrom' = from
    /\ SetTree(InitDecodeTable(Tree))
    /\ decoder' = [var0 |-> 0, var1 |-> 0, readPos |-> 0]
    /\ decOut' = <<>>
    /\ decHead' = 0
    /\ decSyms' = <<>>
    /\ entries' = entries + 1
    /\ pc' = "dec_sym"
    /\ UNCHANGED <<allocPtr, v0, copy, encVars, firstRun, given, wad>>

\* the entry is the file that the encode before it wrote
DecompressFile ==
    /\ pc = "enc_done"
    /\ \E tail \in OobTails : DecompressBegin(OutFile, tail, encSize, "file")

\* the entry is a stream from elsewhere
DecompressStream ==
    \E s \in Streams, tail \in OobTails :
        DecompressBegin(s.in, tail, s.size, "raw")

\* Deflate_StartDecodeByte
DecompressSymbol ==
    /\ pc = "dec_sym"
    /\ decoder.readPos <= Len(decIn) + MaxOob
    /\ \E r \in {StartDecodeByte(Tree, decoder)} :
           /\ SetTree(r.t)
           /\ decoder' = r.d
           /\ v0' = r.lookup
           /\ decSyms' = Append(decSyms, r.leaf)
    /\ pc' = "dec_body"
    /\ UNCHANGED <<allocPtr, decIn, decTail, newSize, decOut, decHead, copy,
                   decFrom, encVars, entries, firstRun, given, wad>>

\* a loop that goes on only while the symbol is a literal
DecompressEndLoose ==
    /\ pc = "dec_body"
    /\ ~(v0 < 256)
    /\ pc' = "dec_done"
    /\ firstRun' = IF entries = 1
                   THEN [in |-> decIn, tail |-> decTail, size |-> newSize,
                         out |-> decOut]
                   ELSE firstRun
    /\ UNCHANGED <<treeVars, allocPtr, decVars, encVars, entries, given, wad>>

\* the while condition fails: v[0] == 256
DecompressEnd ==
    /\ pc = "dec_body"
    /\ ~(v0 # 256)
    /\ pc' = "dec_done"
    /\ firstRun' = IF entries = 1
                   THEN [in |-> decIn, tail |-> decTail, size |-> newSize,
                         out |-> decOut]
                   ELSE firstRun
    /\ UNCHANGED <<treeVars, allocPtr, decVars, encVars, entries, given, wad>>

\* a literal taken one below the value the tree walk returned
DecompressLiteralBelow ==
    /\ pc = "dec_body"
    /\ v0 # 256
    /\ v0 < 256
    /\ decOut' = WriteOutput(decOut, (v0 + 255) % 256)
    /\ allocPtr' = Put(allocPtr, decHead, (v0 + 255) % 256)
    /\ decHead' = IF decHead + 1 = WindowSize THEN 0 ELSE decHead + 1
    /\ pc' = "dec_sym"
    /\ UNCHANGED <<treeVars, decoder, decIn, decTail, newSize, v0, copy,
                   decFrom, decSyms, encVars, entries, firstRun, given, wad>>

\* the branch at != 0: one byte
DecompressLiteral ==
    /\ pc = "dec_body"
    /\ v0 # 256
    /\ v0 < 256
    /\ decOut' = WriteOutput(decOut, v0 % 256)
    /\ allocPtr' = Put(allocPtr, decHead, v0 % 256)
    /\ decHead' = IF decHead + 1 = WindowSize THEN 0 ELSE decHead + 1
    /\ pc' = "dec_sym"
    /\ UNCHANGED <<treeVars, decoder, decIn, decTail, newSize, v0, copy,
                   decFrom, decSyms, encVars, entries, firstRun, given, wad>>

\* a source that lies the base and the extra value behind the head
DecompressMatchNear ==
    /\ pc = "dec_body"
    /\ v0 # 256
    /\ ~(v0 < 256)
    /\ \E mf \in {MatchFields(v0)} :
       \E rs \in {RescanByte(mf.bits, decoder)} :
       \E a0 \in {decHead - (tableVar01(mf.div) + rs[1])} :
           /\ decoder' = rs[2]
           /\ copy' = [s0 |-> IF a0 < 0 THEN a0 + WindowSize ELSE a0,
                       s1 |-> decHead,
                       s2 |-> 0,
                       s3 |-> IF mf.s8 > 0 THEN mf.s8 ELSE 0,
                       s8 |-> mf.s8]
    /\ pc' = "dec_copy"
    /\ UNCHANGED <<treeVars, allocPtr, decIn, decTail, newSize, decOut,
                   decHead, v0, decFrom, decSyms, encVars, entries, firstRun, given,
                   wad>>

\* the else branch up to the copy loop: the extra field and the source
DecompressMatch ==
    /\ pc = "dec_body"
    /\ v0 # 256
    /\ ~(v0 < 256)
    /\ \E mf \in {MatchFields(v0)} :
       \E rs \in {RescanByte(mf.bits, decoder)} :
       \E a0 \in {decHead - ((tableVar01(mf.div) + rs[1]) + mf.s8)} :
           /\ decoder' = rs[2]
           /\ copy' = [s0 |-> IF a0 < 0 THEN a0 + WindowSize ELSE a0,
                       s1 |-> decHead,
                       s2 |-> 0,
                       s3 |-> IF mf.s8 > 0 THEN mf.s8 ELSE 0,
                       s8 |-> mf.s8]
    /\ pc' = "dec_copy"
    /\ UNCHANGED <<treeVars, allocPtr, decIn, decTail, newSize, decOut,
                   decHead, v0, decFrom, decSyms, encVars, entries, firstRun, given,
                   wad>>

\* one pass of the copy loop
DecompressCopy ==
    /\ pc = "dec_copy"
    /\ copy.s2 # copy.s3
    /\ \E a0 \in {Cell(allocPtr, copy.s0)} :
           /\ decOut' = WriteOutput(decOut, a0)
           /\ allocPtr' = Put(allocPtr, copy.s1, a0)
    /\ copy' = [copy EXCEPT
                  !.s2 = @ + 1,
                  !.s1 = IF @ + 1 = WindowSize THEN 0 ELSE @ + 1,
                  !.s0 = IF @ + 1 = WindowSize THEN 0 ELSE @ + 1]
    /\ pc' = "dec_copy"
    /\ UNCHANGED <<treeVars, decoder, decIn, decTail, newSize, decHead, v0,
                   decFrom, decSyms, encVars, entries, firstRun, given, wad>>

\* after the copy loop: the head moves on
DecompressCopyEnd ==
    /\ pc = "dec_copy"
    /\ copy.s2 = copy.s3
    /\ decHead' = IF ~(decHead + copy.s8 < WindowSize)
                  THEN (decHead + copy.s8) - WindowSize
                  ELSE decHead + copy.s8
    /\ pc' = "dec_sym"
    /\ UNCHANGED <<treeVars, allocPtr, decoder, decIn, decTail, newSize,
                   decOut, v0, copy, decFrom, decSyms, encVars, entries,
                   firstRun, given, wad>>

\* ------------------------------------------------------------------------
\* The process
\* ------------------------------------------------------------------------
\* the steps inside an entry
EncodeStep ==
    \/ EncodePrelude
    \/ EncodeBreak
    \/ EncodeLiteral
    \/ EncodeMatch
    \/ EncodeFinish

DecompressStep ==
    \/ DecompressSymbol
    \/ DecompressEnd
    \/ DecompressLiteral
    \/ DecompressMatch
    \/ DecompressCopy
    \/ DecompressCopyEnd

\* a process that handles up to MaxEntries entries in any order
EncodeEntry == \E raw \in RepeatInputs, tail \in Tails : EncodeBegin(raw, tail)

Next ==
    \/ EncodeEntry
    \/ DecompressFile
    \/ DecompressStream
    \/ EncodeStep
    \/ DecompressStep

Spec == Init /\ [][Next]_vars

\* a process whose first entry is an encode, read back afterwards, or the
\* decode of a foreign stream
FirstEncode ==
    /\ entries = 0
    /\ \E raw \in RawInputs, tail \in Tails : EncodeBegin(raw, tail)

FirstStream == entries = 0 /\ DecompressStream

NextCodec ==
    \/ FirstEncode
    \/ FirstStream
    \/ DecompressFile
    \/ EncodeStep
    \/ DecompressStep

SpecCodec == Init /\ [][NextCodec]_vars

\* what a step of Deflate_Encode does to its place in the code and to
\* its position in the input: the first loop and a pass of the main loop
\* move the position on, the break and the end move the place
EncodeRuns ==
    /\ pc \in {"enc_prelude", "enc_main", "enc_end"}
    /\ pc' \in {"enc_prelude", "enc_main", "enc_end", "enc_done"}
    /\ incrBitFile' \in incrBitFile..(incrBitFile + MaxCount)

\* Deflate_Encode runs on once it is called: no step of it waits
SpecCodecFair == SpecCodec /\ WF_<<pc, incrBitFile>>(EncodeRuns)

\* ------------------------------------------------------------------------
\* The match fields on their own: every match symbol, with extra values
\* and heads drawn from the sets below
\* ------------------------------------------------------------------------
\* every value of an extra field below FullValues is drawn, then samples
FullValues == 64

Min(a, b) == IF a < b THEN a ELSE b

\* the values drawn for an extra field of n bits
ExtraSamples(n) ==
    (0..(Min(Pow2(n), FullValues) - 1))
    \cup {Pow2(j) : j \in 0..(n - 1)}
    \cup {(Pow2(n) - 1) - Pow2(j) : j \in 0..(n - 1)}
    \cup {Pow2(n) - 1, 5461 % Pow2(n), 10922 % Pow2(n), 4660 % Pow2(n)}

\* a match as the encoder emits it: bucket m, count and ValExtra
MatchCases ==
    UNION {{[m |-> m, count |-> c, val |-> v] :
                c \in MinCount..MaxCount, v \in {0, ShiftVal[m + 1]}}
           \cup {[m |-> m, count |-> c, val |-> v] :
                c \in {MinCount}, v \in ExtraSamples(4 + 2 * m)} :
           m \in 0..5}

\* the bytes of the match g when it is the first symbol of a stream: the
\* bits MakeBinary and MakeExtraBinary queue, zero bits up to the byte
\* boundary, packed by MakeByte
MatchStream(g) ==
    MakeByte([q |-> PadToByte(
                        MakeExtraBinary(
                            CodeOf(FreshTree,
                                   BandCode[g.m + 1] + (g.count - 3)),
                            g.val, 4 + 2 * g.m),
                        EndLeaf),
              f |-> <<>>, n |-> 0]).f

\* a process that decodes one stream: a drawn match as the encoder writes
\* it, or a foreign stream; it is followed up to the match fields
InitMatch == Construct /\ given \in {<<>>} \cup {<<g>> : g \in MatchCases}

DecompressGiven ==
    /\ given # <<>>
    /\ entries = 0
    /\ DecompressBegin(MatchStream(given[1]), <<0>>, given[1].count, "raw")

ForeignStream == given = <<>> /\ entries = 0 /\ DecompressStream

NextMatch ==
    \/ DecompressGiven
    \/ ForeignStream
    \/ DecompressSymbol
    \/ DecompressLiteral
    \/ DecompressMatch

SpecMatch == InitMatch /\ [][NextMatch]_vars

\* ------------------------------------------------------------------------
\* The tree on its own: Deflate_InitDecodeTable, then the calls of
\* Deflate_DecodeByte that the symbols of one entry cause, one after
\* another. given holds the symbols still to come, as runs.
\* ------------------------------------------------------------------------
MaxScript == 3

\* the symbols drawn (leaf id minus 0x275): three literals, the end symbol
\* and the last match symbol
ScriptSyms == {0, 65, 66, 256, 628}

\* number of repetitions in the long runs
RescaleRun == 994
SkipRun == 1990
WrapRun == 32767

\* a run: the symbols of cycle, one after another, the whole n times over
Run(cycle, n) == [cycle |-> cycle, n |-> n]

\* Deflate_DecodeByte for the symbols cycle[i], cycle[i + 1], ...
RECURSIVE CycleUpdates(_, _, _)
CycleUpdates(t, cycle, i) ==
    IF i > Len(cycle) THEN t
    ELSE CycleUpdates(DecodeByte(t, cycle[i]), cycle, i + 1)

\* Deflate_DecodeByte for every symbol of a run: the first half of the
\* repetitions, then the others on the tree the first half left
RECURSIVE RunUpdates(_, _, _)
RunUpdates(t, cycle, n) ==
    IF n = 0 THEN t
    ELSE IF n = 1 THEN CycleUpdates(t, cycle, 1)
    ELSE CHOOSE r \in {RunUpdates(h, cycle, n - (n \div 2)) :
                           h \in {RunUpdates(t, cycle, n \div 2)}} : TRUE

\* runs of four symbols after which the leaf of the end symbol lies 17
\* steps below the root
DeepScript ==
    <<Run(<<66>>, 32), Run(<<65>>, 4), Run(<<628>>, 16), Run(<<0>>, 64)>>

\* five updates bring the leaf of a symbol right below the root, where
\* the sixth finds it
RootScript == <<Run(<<65>>, 5), Run(<<65>>, 1), Run(<<66>>, 1)>>

\* every sequence of up to MaxScript symbols, and the long runs: two
\* symbols in turn up to the rescale, one symbol many times and then
\* another, one symbol as often as a signed short can count
Scripts ==
    UNION {[1..k -> {Run(<<a>>, 1) : a \in ScriptSyms}] : k \in 1..MaxScript}
    \cup {<<Run(<<65, 66>>, RescaleRun), Run(<<65>>, 1), Run(<<66>>, 1)>>,
          <<Run(<<65, 66>>, RescaleRun - 1), Run(<<65>>, 1), Run(<<66>>, 1),
            Run(<<65>>, 1), Run(<<66>>, 1)>>,
          <<Run(<<65>>, SkipRun), Run(<<66>>, 1)>>,
          DeepScript,
          RootScript,
          <<Run(<<65>>, WrapRun)>>}

InitTree == Construct /\ given \in Scripts

\* Deflate_InitDecodeTable at the start of the entry
TreeInit ==
    /\ pc = "idle"
    /\ entries = 0
    /\ SetTree(InitDecodeTable(Tree))
    /\ decoder' = [decoder EXCEPT !.var0 = 0, !.var1 = 0]
    /\ entries' = 1
    /\ pc' = "tree_init"
    /\ UNCHANGED <<allocPtr, decIn, decTail, newSize, decOut, decHead, v0,
                   copy, decFrom, decSyms, encVars, firstRun, given, wad>>

\* the updates of the next run of symbols
UpdateRun ==
    /\ pc \in {"tree_init", "tree_upd"}
    /\ given # <<>>
    /\ \E r \in {RunUpdates(Tree, given[1].cycle, given[1].n)} : SetTree(r)
    /\ given' = Tail(given)
    /\ pc' = "tree_upd"
    /\ UNCHANGED <<allocPtr, decVars, encVars, entries, firstRun, wad>>

NextTree ==
    \/ TreeInit
    \/ UpdateRun

SpecTree == InitTree /\ [][NextTree]_vars

\* ------------------------------------------------------------------------
\* Long entries: one encode of an input long enough for the head to pass
\* the end of the window, or for a match to lie as far back as the search
\* looks
\* ------------------------------------------------------------------------
\* byte i of the long entry: blocks of MaxCount - 1 bytes that differ in
\* their first byte only, which takes five values in an order in which no
\* two values follow one another twice within twenty blocks. A block that
\* came before is found again with its MaxCount - 1 bytes and never with
\* the byte after them.
LongByte(i) ==
    LET o == i % (MaxCount - 1)
        b == i \div (MaxCount - 1)
    IN  IF o = 0 THEN 1 + (((b % 5) * (((b \div 5) % 4) + 1)) % 5)
        ELSE IF o = Max % (MaxCount - 1) THEN 6
        ELSE 0

\* the passes of the main loop that are taken in one step
LongSkip == 354

\* the entry is longer than the window; LongSkip passes of the main loop
\* bring its head close to the end of the window
LongInput == [gap |-> 0, size |-> Max + 4 * MaxCount, skip |-> LongSkip]
\* the gaps of the entries with a match far back: the first distance of
\* the buckets 1 to 3 for the longest match, the largest distance the
\* search reaches, and one more
FarGaps ==
    {CountBase[m + 1] + MaxCount : m \in 1..3}
    \cup {SearchDepth + MaxCount, SearchDepth + MaxCount + 1}

\* byte i of the entry with gap g: MaxCount zeros, bytes in which no
\* MaxCount zeros follow one another and no byte but zero comes twice,
\* and MaxCount zeros again from byte g on
FarByte(g, i) ==
    IF i < MaxCount \/ i >= g THEN 0
    ELSE IF i = g - 1 THEN 255
    ELSE IF (i - MaxCount) % MaxCount = 0
    THEN 1 + ((i - MaxCount) \div MaxCount)
    ELSE 0

FarInputs == {[gap |-> g, size |-> g + MaxCount, skip |-> 0] : g \in FarGaps}

\* the bytes of the given entry c
GivenEntry(c) ==
    SubSeq([i \in 1..c.size |->
               IF c.gap = 0 THEN LongByte(i - 1) ELSE FarByte(c.gap, i - 1)],
           1, c.size)

EncodeGiven ==
    /\ given # <<>>
    /\ entries = 0
    /\ EncodeBegin(GivenEntry(given[1]), <<65>>)

\* the first loop and given[1].skip passes of the main loop
EncodeRun ==
    /\ pc = "enc_prelude"
    /\ given # <<>>
    /\ given[1].skip > 0
    /\ incrBitFile = 0
    /\ \E e \in MainPasses(FirstPasses({Enc}, Prelude), given[1].skip) :
           SetEnc(e)
    /\ pc' = "enc_main"
    /\ UNCHANGED <<encIn, encTail, encSize, decVars, entries, firstRun, given, wad>>

\* the passes after those, one by one
LatePass == incrBitFile > Prelude /\ (EncodeLiteral \/ EncodeMatch)

InitLong == Construct /\ given = <<LongInput>>

NextLong ==
    \/ EncodeGiven
    \/ EncodeRun
    \/ LatePass
    \/ EncodeBreak
    \/ EncodeFinish

SpecLong == InitLong /\ [][NextLong]_vars

InitFar == Construct /\ given \in {<<c>> : c \in FarInputs}

NextFar ==
    \/ EncodeGiven
    \/ EncodeStep

SpecFar == InitFar /\ [][NextFar]_vars

\* an entry with a match of the greatest count, encoded and read back
BackInputs == {c \in FarInputs : c.gap = CountBase[2] + MaxCount}

InitBack == Construct /\ given \in {<<c>> : c \in BackInputs}

NextBack ==
    \/ EncodeGiven
    \/ EncodeStep
    \/ DecompressFile
    \/ DecompressStep

SpecBack == InitBack /\ [][NextBack]_vars

\* ------------------------------------------------------------------------
\* A stream decoded on the window that an encode has left
\* ------------------------------------------------------------------------
\* the matches drawn: the distance W (the source is the head) and W - 1
\* for the greatest count, and the distances 3 and 4 for the count 3
CopyCases ==
    {[m |-> 5, count |-> MaxCount, val |-> ShiftVal[6]],
     [m |-> 5, count |-> MaxCount, val |-> ShiftVal[6] - 1],
     [m |-> 0, count |-> MinCount, val |-> 0],
     [m |-> 0, count |-> MinCount, val |-> 1]}

\* the bytes of a stream that holds the match g and the end symbol, as
\* MakeBinary, MakeExtraBinary and MakeByte write them
CopyStream(g) ==
    LET Code == BandCode[g.m + 1] + (g.count - 3)
        a == EmitSymbol(FreshTree, <<>>, <<>>, 0, Code, CodeOf(FreshTree, Code))
        b == MakeByte([q |-> MakeExtraBinary(a.q, g.val, 4 + 2 * g.m),
                       f |-> a.f, n |-> a.n])
        c == EmitSymbol(a.t, b.q, b.f, b.n, EndLeaf, CodeOf(a.t, EndLeaf))
    IN  c.f

InitCopy == Construct /\ given \in {<<g>> : g \in CopyCases}

\* the second entry of the process: the given stream
DecompressLater ==
    /\ given # <<>>
    /\ entries = 1
    /\ pc = "enc_done"
    /\ DecompressBegin(CopyStream(given[1]), <<0>>, given[1].count, "raw")

NextCopy ==
    \/ FirstEncode
    \/ EncodeStep
    \/ DecompressLater
    \/ DecompressSymbol
    \/ DecompressEnd
    \/ DecompressMatch
    \/ DecompressCopy
    \/ DecompressCopyEnd

SpecCopy == InitCopy /\ [][NextCopy]_vars

\* ------------------------------------------------------------------------
\* main.cpp: decompress_WAD and pad_WAD on the header, the directory and
\* the lump data. A byte of a file is held as [by, from, at]: byte at of
\* what by made of the input at offset from.
\* ------------------------------------------------------------------------
\* sizeof(wadinfo_t)
HeaderSize == 12

\* the greatest number of lumps of an archive drawn
MaxLumps == 3

DECODE_NONE == "DECODE_NONE"
DECODE_JAGUAR == "DECODE_JAGUAR"
DECODE_D64 == "DECODE_D64"

\* char name[8]: bit 0x80 of name[0], and the text without that bit
LumpName(bit, text) == [bit |-> bit, text |-> text]

\* the first revision of the function: T_START, T_END and the compressed
\* MAP01 only
choose_decode_mode_first(decode_mode, lump_name) ==
    IF lump_name = LumpName(0, "T_START") THEN DECODE_D64
    ELSE IF lump_name = LumpName(0, "T_END") THEN DECODE_JAGUAR
    ELSE IF lump_name = LumpName(1, "MAP01") THEN DECODE_D64
    ELSE decode_mode

\* choose_decode_mode: the value of *decode_mode afterwards
choose_decode_mode(decode_mode, lump_name) ==
    LET chain == IF lump_name = LumpName(0, "S_START") THEN DECODE_JAGUAR
                 ELSE IF lump_name = LumpName(0, "T_START") THEN DECODE_D64
                 ELSE IF lump_name = LumpName(0, "T_END") THEN DECODE_JAGUAR
                 ELSE IF lump_name = LumpName(0, "MAP01") THEN DECODE_D64
                 ELSE decode_mode
    IN  IF lump_name = LumpName(1, "MAP01") THEN DECODE_D64 ELSE chain

\* the lumps an archive is made of: name, size of the directory entry and
\* the number of bytes the lump takes in the file
LumpKinds ==
    {[name |-> LumpName(0, "S_START"), size |-> 0, stored |-> 0],
     [name |-> LumpName(0, "T_START"), size |-> 0, stored |-> 0],
     [name |-> LumpName(0, "T_END"), size |-> 0, stored |-> 0],
     [name |-> LumpName(0, "MAP01"), size |-> 5, stored |-> 8],
     [name |-> LumpName(1, "MAP01"), size |-> 6, stored |-> 4],
     [name |-> LumpName(0, "PLAYPAL"), size |-> 4, stored |-> 4],
     [name |-> LumpName(0, "DEMO1LMP"), size |-> 2, stored |-> 4],
     [name |-> LumpName(1, "SARGA1"), size |-> 3, stored |-> 4],
     [name |-> LumpName(1, "T_START"), size |-> 1, stored |-> 4]}

\* the bytes the first i lumps take in the file
RECURSIVE StoredBefore(_, _)
StoredBefore(ls, i) ==
    IF i = 0 THEN 0 ELSE StoredBefore(ls, i - 1) + ls[i].stored

\* wadinfo_t and the lumpinfo_t entries of a file that holds the lumps ls
\* one after the other from the header on, the directory last
Archive(ls) ==
    [numlumps |-> Len(ls),
     infotableofs |-> HeaderSize + StoredBefore(ls, Len(ls)),
     lump_directory |->
         [i \in 1..Len(ls) |->
             [filepos |-> HeaderSize + StoredBefore(ls, i - 1),
              size |-> ls[i].size, name |-> ls[i].name]]]

Archives ==
    {Archive(ls) : ls \in UNION {[1..n -> LumpKinds] : n \in 1..MaxLumps}}

\* what the memory before and behind the malloc'ed directory may hold,
\* read as a lumpinfo_t
PastDirectory ==
    {[filepos |-> 0, size |-> 0, name |-> LumpName(0, "")],
     [filepos |-> 16, size |-> 4, name |-> LumpName(0, "")]}

\* lump_directory[i] as the code reads it
DirectoryAt(w, i) ==
    IF i >= 0 /\ i < w.numlumps THEN {w.lump_directory[i + 1]}
    ELSE PastDirectory

\* read_lump: size bytes of the file from offset on
read_lump(offset, size) ==
    [j \in 1..size |-> [by |-> "file", from |-> offset, at |-> j - 1]]

\* decompress_lump_data: new_size bytes, left by the codec of decode_mode
\* or as malloc returned them when neither codec is run
decompress_lump_data(lump_data, new_size, decode_mode) ==
    [j \in 1..new_size |->
        [by |-> IF decode_mode = DECODE_JAGUAR THEN "DecodeJaguar"
                ELSE IF decode_mode = DECODE_D64 THEN "DecodeD64"
                ELSE "malloc",
         from |-> lump_data[1].from, at |-> j - 1]]

\* fwrite(lump_data, n, 1, ...): n bytes from the start of the buffer on,
\* which run past its end when it is shorter
fwrite(lump_data, n) ==
    [j \in 1..n |-> IF j <= Len(lump_data) THEN lump_data[j]
                    ELSE [by |-> "past", from |-> 0, at |-> j - 1]]

\* decompress_and_write_lump on lump idx of the directory of w
decompress_and_write_lump(w, idx, size) ==
    LET lump_info == w.lump_directory[idx + 1]
        mode      == choose_decode_mode(w.decode_mode, lump_info.name)
        packed    == lump_info.name.bit = 1
        read      == read_lump(lump_info.filepos, size)
        lump_data == IF packed
                     THEN decompress_lump_data(read, lump_info.size, mode)
                     ELSE read
    IN  IF size <= 0
        THEN [w EXCEPT !.decode_mode = mode,
                       !.calls = Append(@, [lump |-> idx, mode |-> mode,
                                            name |-> lump_info.name,
                                            ran |-> "return"])]
        ELSE [w EXCEPT !.decode_mode = mode,
                       !.lump_directory[idx + 1].name.bit = 0,
                       !.body = @ \o fwrite(lump_data, lump_info.size),
                       !.calls = Append(@, [lump |-> idx, mode |-> mode,
                                            name |-> lump_info.name,
                                            ran |-> IF packed
                                                    THEN lump_data[1].by
                                                    ELSE "fwrite"])]

\* a padding of 4 - mod bytes whatever mod is
pad_lump_always(lump_info) ==
    LET mod       == lump_info.size % 4
        padding   == 4 - mod
        lump_data == read_lump(lump_info.filepos, lump_info.size)
    IN  [data |-> [j \in 1..(lump_info.size + padding) |->
                      IF j <= lump_info.size THEN lump_data[j]
                      ELSE [by |-> "memset", from |-> 0, at |-> 0]],
         size |-> lump_info.size + padding]

\* pad_lump: the buffer returned and lump_info->size afterwards
pad_lump(lump_info) ==
    LET mod       == lump_info.size % 4
        padding   == IF mod # 0 THEN 4 - mod ELSE 0
        lump_data == read_lump(lump_info.filepos, lump_info.size)
    IN  IF padding > 0
        THEN [data |-> [j \in 1..(lump_info.size + padding) |->
                           IF j <= lump_info.size THEN lump_data[j]
                           ELSE [by |-> "memset", from |-> 0, at |-> 0]],
              size |-> lump_info.size + padding]
        ELSE [data |-> lump_data, size |-> lump_info.size]

\* decompress_WAD / pad_WAD up to the first lump: the header and the
\* directory are read and the header is written
OpenWAD ==
    /\ wad.op = "closed"
    /\ \E op \in {"decompress_WAD", "pad_WAD"}, a \in Archives :
           wad' = [op |-> op, at |-> "first", input |-> a,
                   numlumps |-> a.numlumps,
                   lump_directory |-> a.lump_directory,
                   total_size |-> HeaderSize, decode_mode |-> DECODE_NONE,
                   i |-> 1, body |-> <<>>, calls |-> <<>>,
                   written |-> <<>>,
                   header |-> [numlumps |-> a.numlumps,
                               infotableofs |-> a.infotableofs]]
    /\ UNCHANGED codecVars

\* decompress_WAD: "Process first lump"
DecompressFirst ==
    /\ wad.op = "decompress_WAD"
    /\ wad.at = "first"
    /\ \E next \in DirectoryAt(wad, 1) :
         \E w \in {decompress_and_write_lump(wad, 0,
                                             next.filepos - HeaderSize)} :
           wad' = [w EXCEPT !.lump_directory[1].filepos = HeaderSize,
                            !.total_size = @ + w.lump_directory[1].size,
                            !.at = "other"]
    /\ UNCHANGED codecVars

\* decompress_WAD: one pass of the for loop
DecompressOther ==
    /\ wad.op = "decompress_WAD"
    /\ wad.at = "other"
    /\ wad.i < wad.numlumps - 1
    /\ \E w \in {decompress_and_write_lump(wad, wad.i,
                     wad.lump_directory[wad.i + 2].filepos
                         - wad.lump_directory[wad.i + 1].filepos)} :
           wad' = [w EXCEPT !.lump_directory[wad.i + 1].filepos =
                                w.lump_directory[wad.i].filepos
                                    + w.lump_directory[wad.i].size,
                            !.total_size =
                                @ + w.lump_directory[wad.i + 1].size,
                            !.i = @ + 1]
    /\ UNCHANGED codecVars

\* decompress_WAD: "Process last lump"
DecompressLast ==
    /\ wad.op = "decompress_WAD"
    /\ wad.at = "other"
    /\ ~(wad.i < wad.numlumps - 1)
    /\ \E w \in {decompress_and_write_lump(wad, wad.numlumps - 1,
                     wad.header.infotableofs
                         - wad.lump_directory[wad.numlumps].filepos)} :
         \E prev \in DirectoryAt(w, wad.numlumps - 2) :
           wad' = [w EXCEPT !.lump_directory[wad.numlumps].filepos =
                                prev.filepos + prev.size,
                            !.total_size =
                                @ + w.lump_directory[wad.numlumps].size,
                            !.at = "directory"]
    /\ UNCHANGED codecVars

\* pad_WAD: "Pad first lump"
PadFirst ==
    /\ wad.op = "pad_WAD"
    /\ wad.at = "first"
    /\ \E p \in {pad_lump(wad.lump_directory[1])} :
           wad' = [wad EXCEPT !.lump_directory[1].size = p.size,
                              !.lump_directory[1].filepos = HeaderSize,
                              !.total_size = @ + p.size,
                              !.body = @ \o fwrite(p.data, p.size),
                              !.at = "other"]
    /\ UNCHANGED codecVars

\* pad_WAD: one pass of the for loop
PadOther ==
    /\ wad.op = "pad_WAD"
    /\ wad.at = "other"
    /\ wad.i < wad.numlumps
    /\ \E p \in {pad_lump(wad.lump_directory[wad.i + 1])} :
           wad' = [wad EXCEPT !.lump_directory[wad.i + 1].size = p.size,
                              !.lump_directory[wad.i + 1].filepos =
                                  wad.lump_directory[wad.i].filepos
                                      + wad.lump_directory[wad.i].size,
                              !.total_size = @ + p.size,
                              !.body = @ \o fwrite(p.data, p.size),
                              !.i = @ + 1]
    /\ UNCHANGED codecVars

\* "Write lump directory" and "Fix header using new size of WAD"
WriteDirectory ==
    /\ \/ wad.op = "decompress_WAD" /\ wad.at = "directory"
       \/ wad.op = "pad_WAD" /\ wad.at = "other" /\ ~(wad.i < wad.numlumps)
    /\ wad' = [wad EXCEPT !.written = wad.lump_directory,
                          !.header.infotableofs = wad.total_size,
                          !.at = "done"]
    /\ UNCHANGED codecVars

NextWAD ==
    \/ OpenWAD
    \/ DecompressFirst
    \/ DecompressOther
    \/ DecompressLast
    \/ PadFirst
    \/ PadOther
    \/ WriteDirectory

SpecWAD == Init /\ [][NextWAD]_vars

\* ------------------------------------------------------------------------
\* Properties
\* ------------------------------------------------------------------------
\* the decode of the file that the encode before it wrote has ended
ReadBack == pc = "dec_done" /\ decFrom = "file"

\* C1: decoding the bytes the encoder made from an input s gives back s:
\* exactly Len(s) bytes, equal to s, and nothing after them.
RoundTrip == ReadBack => decOut = encIn

DecodePure ==
    (pc = "dec_done" /\ entries = 2 /\ firstRun # NoRun
        /\ firstRun.in = decIn /\ firstRun.tail = decTail)
    => decOut = firstRun.out

\* an entry has just begun: the set-up is done, no symbol handled yet
EntryStart ==
    \/ pc = "enc_prelude" /\ incrBitFile = 0
    \/ pc = "dec_sym" /\ decSyms = <<>>

\* C4: at the start of every decode and of every encode the whole codec
\* state is what it is at the start of the first entry of a process,
\* whatever entries came before: every node weight, the root included, the
\* links, the window cells, the bit reader, the queue of pending bits and
\* the count of bytes written.
FreshStart ==
    EntryStart
    => /\ array01 = FreshTree.weight
       /\ DecodeTable = [left |-> FreshTree.left, right |-> FreshTree.right,
                         parent |-> FreshTree.parent]
       /\ allocPtr = <<>>
       /\ decoder.var0 = 0
       /\ decoder.var1 = 0
       /\ BinCode = <<>>
       /\ OutputSize = 0

\* a decode is under way or has ended
Decoding == pc \in {"dec_sym", "dec_body", "dec_copy", "dec_done"}

\* C5: a decode never writes more bytes than the size declared for the
\* entry; a stream that would give more stops the decode with an
\* output-overflow error.
NoOverflow == Decoding => Len(decOut) <= newSize

\* C6: on a truncated stream the decode stops with an input-exhausted error:
\* the reader never fetches a byte at or after the end of the input.
InputBounded == Decoding => decoder.readPos <= Len(decIn)

\* the code bits and the extra bits of a run of symbols, in order
RECURSIVE SymBits(_)
SymBits(syms) ==
    IF syms = <<>> THEN <<>>
    ELSE SymBits(SubSeq(syms, 1, Len(syms) - 1))
            \o syms[Len(syms)].code \o syms[Len(syms)].extra

\* bits followed by the fewest zero bits that reach a byte boundary
ZeroPad(bits) == bits \o [i \in 1..((8 - (Len(bits) % 8)) % 8) |-> 0]

\* whole bytes of a run of bits, first bit in the highest place
BytesOf(bits) ==
    [i \in 1..(Len(bits) \div 8) |->
        bits[8 * i - 7] * 128 + bits[8 * i - 6] * 64 + bits[8 * i - 5] * 32
        + bits[8 * i - 4] * 16 + bits[8 * i - 3] * 8 + bits[8 * i - 2] * 4
        + bits[8 * i - 1] * 2 + bits[8 * i]]

Zeros(n) == [i \in 1..n |-> 0]

RECURSIVE SymBytes(_)
SymBytes(syms) ==
    IF syms = <<>> THEN 0
    ELSE SymBytes(SubSeq(syms, 1, Len(syms) - 1)) + syms[Len(syms)].n

\* C8: an input shorter than the prelude of 14 bytes is encoded as one
\* literal per input byte followed by the end symbol; the empty input as
\* the end symbol alone.
ShortInput ==
    (pc = "enc_done" /\ encSize < Prelude)
    => /\ Len(encSyms) = encSize + 1
       /\ \A i \in 1..encSize : encSyms[i].leaf = FirstLeaf + encIn[i]
       /\ encSyms[encSize + 1].leaf = EndLeaf

\* C9: the symbols before the end symbol stand for exactly size bytes and
\* the encoder reads no input byte at an index of size or more; an input of
\* 14 bytes gives the 14 literals of the prelude and the end symbol only.
SymbolsCoverSize ==
    pc = "enc_done"
    => /\ SymBytes(encSyms) = encSize
       /\ incrBitFile <= encSize
       /\ encSize = Prelude => Len(encSyms) = Prelude + 1

\* the bucket table: width of the extra field and base offset
ExtraBitsOf == <<4, 6, 8, 10, 12, 14>>
BaseOf == <<0, 16, 80, 336, 1360, 5456>>

\* the number of stream bits the reader has used, and bit p of the stream
BitPos(d) == 8 * d.readPos - d.var0
StreamBit(p) == (ByteAt(decIn, decTail, p \div 8) \div Pow2(7 - (p % 8))) % 2

\* the field of n bits at bit p of the stream, first bit lowest
RECURSIVE FieldAt(_, _)
FieldAt(p, n) ==
    IF n = 0 THEN 0 ELSE StreamBit(p) + 2 * FieldAt(p + 1, n - 1)

\* the step of the decoder that follows a tree walk ending at leaf
DecoderNumbering ==
    pc = "dec_body"
    => LET leaf == decSyms[Len(decSyms)]
           k    == (leaf - 886) \div 62
           i    == (leaf - 886) % 62
           p    == BitPos(decoder)
       IN  /\ leaf \in 629..884
                => decOut' = Append(decOut, leaf - 629) /\ pc' = "dec_sym"
           /\ leaf = 885 => decOut' = decOut /\ pc' = "dec_done"
           /\ leaf \in 886..1257
                => /\ pc' = "dec_copy"
                   /\ decOut' = decOut
                   /\ copy'.s3 = i + 3
                   /\ BitPos(decoder') = p + ExtraBitsOf[k + 1]
                   /\ copy'.s0 =
                        (decHead - (BaseOf[k + 1]
                                    + FieldAt(p, ExtraBitsOf[k + 1])
                                    + (i + 3))) % WindowSize

\* the step of the encoder that emits a symbol
EncoderNumbering ==
    Len(encSyms') = Len(encSyms) + 1
    => LET s == encSyms'[Len(encSyms')]
       IN  /\ pc = "enc_end" => s.leaf = 885 /\ s.n = 0
           /\ (pc # "enc_end" /\ s.n = 1)
                => s.leaf = 629 + InByte(incrBitFile) /\ s.extra = <<>>
           /\ (pc # "enc_end" /\ s.n # 1)
                => /\ s.n \in 3..64
                   /\ incrBitFile' = incrBitFile + s.n
                   /\ \E k \in 0..5 :
                         /\ s.leaf = 886 + 62 * k + (s.n - 3)
                         /\ Len(s.extra) = ExtraBitsOf[k + 1]

\* C10: a tree walk of the decoder that ends at leaf 0x275 + b gives the
\* byte b, at leaf 0x375 the decode stops, and at leaf 0x376 + 62k + i it
\* gives a match of length i + 3 whose extra field is ExtraBitsOf[k] bits
\* wide and whose base offset is BaseOf[k]; the encoder emits its symbols
\* with the same numbering.
SymbolNumbering == [][DecoderNumbering /\ EncoderNumbering]_vars

\* the decoder has copied a match that the encoder emitted
SymbolNumberingSeen ==
    /\ pc = "dec_copy"
    /\ decFrom = "file"
    /\ copy.s2 = copy.s3
    /\ copy.s3 >= MinCount
    /\ encSyms[Len(decSyms)].n = copy.s3

\* C11: for every match symbol and extra value the distance
\* d = base + extra + len satisfies 3 <= len <= d <= W = 21903, the copy
\* starts at window index (head - d) mod W, and that index, computed with
\* one conditional addition of W, lies in 0..W-1.
MatchDistance ==
    [][(pc = "dec_body" /\ pc' = "dec_copy")
       => LET leaf == decSyms[Len(decSyms)]
              k    == (leaf - 886) \div 62
              len  == ((leaf - 886) % 62) + 3
              d    == BaseOf[k + 1]
                        + FieldAt(BitPos(decoder), ExtraBitsOf[k + 1]) + len
          IN  /\ 3 <= len
              /\ len <= d
              /\ d <= 21903
              /\ copy'.s3 = len
              /\ copy'.s0 = (decHead - d) % 21903
              /\ copy'.s0 = IF decHead - d < 0 THEN (decHead - d) + 21903
                                                ELSE decHead - d
              /\ copy'.s0 \in 0..21902]_vars

\* the longest match at the largest distance: d = W, the source is the head
MatchDistanceSeen ==
    /\ pc = "dec_copy"
    /\ given # <<>>
    /\ decSyms = <<1257>>
    /\ FieldAt(BitPos(decoder) - 14, 14) = 16383
    /\ copy.s3 = 64
    /\ copy.s0 = decHead

\* the n bits that n calls of Deflate_DecodeScan return from decoder d on
RECURSIVE ScanBits(_, _)
ScanBits(d, n) ==
    IF n = 0 THEN <<>>
    ELSE LET sc == DecodeScan(d) IN <<sc[1]>> \o ScanBits(sc[2], n - 1)

\* the bits the encoder queued for the first k symbols
QueuedFor(k) == SymBits(SubSeq(encSyms, 1, k))

\* C12: the bits Deflate_DecodeScan returns from the bytes MakeByte wrote
\* are the bits the encoder queued, in the same order: the first bit queued
\* is the highest bit of the first byte.
BitOrder ==
    (decFrom = "file" /\ pc = "dec_sym")
    => /\ BitPos(decoder) = Len(QueuedFor(Len(decSyms)))
       /\ decSyms = <<>>
            => \E Q \in {ZeroPad(SymBits(encSyms))} :
                 /\ Q[1] = decIn[1] \div 128
                 /\ \A i \in 0..((Len(Q) \div 8) - 1) :
                       ScanBits([var0 |-> 0, var1 |-> 0, readPos |-> i], 8)
                          = SubSeq(Q, 8 * i + 1, 8 * i + 8)

\* the read-back of a file of several bytes, one of them mixed, has begun
BitOrderSeen ==
    /\ decFrom = "file"
    /\ pc = "dec_sym"
    /\ decSyms = <<>>
    /\ Len(decIn) >= 8
    /\ \E i \in 1..Len(decIn) : decIn[i] \notin {0, 255}
    /\ \E i \in 1..Len(encSyms) : encSyms[i].extra # <<>>

\* C13: the n bits MakeExtraBinary queues for a value v are the bits of v
\* from bit 0 up, and Deflate_RescanByte(n) reading them returns v again, so
\* the distance the decoder uses is the one the encoder coded.
ExtraRoundTrip ==
    given # <<>>
    => \E n \in {4 + 2 * given[1].m} : \E v \in {given[1].val} :
         /\ pc = "dec_body"
              => /\ RescanByte(n, decoder)[1] = v
                 /\ BitPos(RescanByte(n, decoder)[2]) = BitPos(decoder) + n
                 /\ \A j \in 0..(n - 1) :
                       /\ MakeExtraBinary(<<>>, v, n)[j + 1] = (v \div Pow2(j)) % 2
                       /\ StreamBit(BitPos(decoder) + j) = (v \div Pow2(j)) % 2
         /\ pc = "dec_copy"
              => (decHead - copy.s0) % 21903
                    = (BaseOf[given[1].m + 1] + v + given[1].count) % 21903

\* a 14-bit value with mixed bits has been read back and the copy set up
ExtraRoundTripSeen ==
    /\ given # <<>>
    /\ pc = "dec_copy"
    /\ given[1].m = 5
    /\ given[1].val = 4660

\* C14: after Deflate_InitDecodeTable the six buckets have the extra-bit
\* widths 4, 6, 8, 10, 12, 14 and the base offsets 0, 16, 80, 336, 1360,
\* 5456, each base being the one before plus two to the width before, and
\* the window size is 21903 = base[5] + 2^14 - 1 + 64; a match of bucket k
\* is copied from base[k] + extra + length cells behind the head.
TableValues ==
    entries >= 1
    => /\ \A k \in 0..5 :
             /\ array05(k) = ExtraBitsOf[k + 1]
             /\ tableVar01(k) = BaseOf[k + 1]
       /\ \A k \in 0..4 :
             tableVar01(k + 1) = tableVar01(k) + Pow2(array05(k))
       /\ WindowSize = 21903
       /\ WindowSize = tableVar01(5) + Pow2(14) - 1 + 64
       /\ (pc = "dec_copy" /\ given # <<>>)
            => /\ copy.s0 \in 0..(WindowSize - 1)
               /\ (decHead - copy.s0) % WindowSize
                     = (BaseOf[given[1].m + 1] + given[1].val
                          + given[1].count) % WindowSize

\* the tables have been set up and a match of the last bucket with no
\* extra offset has used them: its source lies base[5] + 3 cells back
TableValuesSeen ==
    /\ entries >= 1
    /\ pc = "dec_copy"
    /\ given # <<>>
    /\ given[1].m = 5
    /\ given[1].val = 0
    /\ given[1].count = 3
    /\ copy.s0 = WindowSize - 5459

\* the leaf the last tree walk of the decode returned, 0 before the first
LastLeaf == IF decSyms = <<>> THEN 0 ELSE decSyms[Len(decSyms)]

\* C15: a decode ends only in the step right after the tree walk returned
\* the end-of-stream leaf 0x375: not during an extra-bits read or a match
\* copy, and once that leaf is decoded no further byte is output and no
\* further bit is read.
DecodeEnds ==
    [][/\ (pc' = "dec_done" /\ pc # "dec_done")
            => /\ pc = "dec_body"
               /\ LastLeaf = 885
               /\ v0 = 256
       /\ (pc = "dec_body" /\ LastLeaf = 885)
            => /\ pc' = "dec_done"
               /\ decOut' = decOut
               /\ decoder' = decoder
               /\ allocPtr' = allocPtr
       /\ (pc \in {"dec_sym", "dec_copy"} \/ (pc = "dec_body" /\ LastLeaf # 885))
            => pc' # "dec_done"]_vars

\* a foreign stream with a match in it has been decoded to its end
DecodeEndsSeen ==
    /\ pc = "dec_done"
    /\ decFrom = "raw"
    /\ LastLeaf = 885
    /\ \E i \in 1..Len(decSyms) : decSyms[i] >= FirstMatchLeaf
    /\ \E i \in 1..Len(decSyms) : decSyms[i] < 885
    /\ Len(decOut) > 1

\* bit p of the file the encode writes, the highest bit of a byte first
FileBit(p) == (OutFile[(p \div 8) + 1] \div Pow2(7 - (p % 8))) % 2

\* C16: in every encode the end-of-stream symbol 0x375 is emitted exactly
\* once and last: no symbol emitted while the input is being encoded is the
\* end symbol, the last symbol of a finished encode is, and every bit of the
\* file after the bits of the symbols is a zero.
EndOnce ==
    /\ pc \in {"enc_prelude", "enc_main", "enc_end"}
         => \A i \in 1..Len(encSyms) : encSyms[i].leaf # 885
    /\ pc = "enc_done"
         => \E bits \in {Len(SymBits(encSyms))} :
              /\ encSyms # <<>>
              /\ \A i \in 1..Len(encSyms) :
                    (encSyms[i].leaf = 885) <=> (i = Len(encSyms))
              /\ BinCode = <<>>
              /\ bits <= 8 * Len(OutFile)
              /\ \A p \in bits..(8 * Len(OutFile) - 1) : FileBit(p) = 0

\* an encode with a match in it has finished, and its symbols did not end
\* on a byte boundary
EndOnceSeen ==
    /\ pc = "enc_done"
    /\ \E i \in 1..Len(encSyms) : encSyms[i].leaf >= FirstMatchLeaf
    /\ encSyms[Len(encSyms)].leaf = 885
    /\ Len(SymBits(encSyms)) % 8 # 0

\* the tree has been updated for at least one symbol
Updated == pc = "tree_upd"

\* C17: after every symbol update and after every rescale, the weight of
\* every internal node is the sum of the weights of its two children.
WeightSums ==
    Updated
    => \A n \in 1..(FirstLeaf - 1) :
          array01[n] = array01[DecodeTable.left[n]]
                         + array01[DecodeTable.right[n]]

\* C18: after any sequence of symbol updates the root weight is below
\* 0x7D0.
RootBelowRescale == Updated => array01[1] < 2000

\* the walk from node n towards the root arrives within k steps
RECURSIVE Climbs(_, _)
Climbs(n, k) ==
    IF n = 1 THEN TRUE
    ELSE IF k = 0 THEN FALSE
    ELSE Climbs(DecodeTable.parent[n], k - 1)

\* C19: after initialization and after any sequence of symbol updates the
\* three tables describe one binary tree rooted at node 1: every internal
\* node has two distinct children whose parent entry is that node, every
\* other node is the child of its parent and of no other node, node 1 is
\* no child, every leaf climbs to the root, and the code of a symbol leads
\* the walk from the root to that symbol's leaf and to no other.
TreeShape ==
    pc \in {"tree_init", "tree_upd"}
    => /\ \A n \in 1..(FirstLeaf - 1) :
             /\ DecodeTable.left[n] \in 2..NumNodes
             /\ DecodeTable.right[n] \in 2..NumNodes
             /\ DecodeTable.left[n] # DecodeTable.right[n]
             /\ DecodeTable.parent[DecodeTable.left[n]] = n
             /\ DecodeTable.parent[DecodeTable.right[n]] = n
       /\ \A c \in 2..NumNodes :
             /\ DecodeTable.parent[c] \in 1..(FirstLeaf - 1)
             /\ c \in {DecodeTable.left[DecodeTable.parent[c]],
                       DecodeTable.right[DecodeTable.parent[c]]}
       /\ \A n \in FirstLeaf..NumNodes : Climbs(n, NumNodes)
       /\ \A a \in ScriptSyms :
             WalkBits(Tree, 1, CodeOf(Tree, a + FirstLeaf), 0) = a + FirstLeaf

\* the tree just after a rescale, with nodes moved from their first places
TreeShapeSeen ==
    /\ Updated
    /\ array01[1] = 1000
    /\ \E n \in 2..NumNodes : DecodeTable.parent[n] # n \div 2

\* C20: after any sequence of symbol updates every weight is non-negative
\* and fits in a signed short.
WeightsFit == Updated => \A n \in 1..NumNodes : array01[n] \in 0..32767

\* the lighter and the heavier weight of the two children of node n
PairMin(n) ==
    Min(array01[DecodeTable.left[n]], array01[DecodeTable.right[n]])

PairMax(n) ==
    IF array01[DecodeTable.left[n]] < array01[DecodeTable.right[n]]
    THEN array01[DecodeTable.right[n]]
    ELSE array01[DecodeTable.left[n]]

\* C21: after every symbol update the tree has the sibling property: the
\* nodes can be listed, each next to its sibling, in an order in which the
\* weights never decrease. Such a list exists exactly when of any two
\* pairs of siblings one pair is no heavier than the lighter node of the
\* other.
SiblingProperty ==
    Updated
    => \A p, q \in 1..(FirstLeaf - 1) :
          PairMax(p) <= PairMin(q) \/ PairMax(q) <= PairMin(p) \/ p = q

\* the number of leaves below node n
RECURSIVE LeafCount(_)
LeafCount(n) ==
    IF ~(n < FirstLeaf) THEN 1
    ELSE LeafCount(DecodeTable.left[n]) + LeafCount(DecodeTable.right[n])

\* C22: immediately after initialization every leaf has weight 1 and the
\* weight of every internal node is the number of leaves in its subtree,
\* so the root weight is 629.
InitWeights ==
    pc = "tree_init"
    => /\ \A n \in FirstLeaf..NumNodes : array01[n] = 1
       /\ array01[1] = 629
       /\ \A n \in 1..(FirstLeaf - 1) : array01[n] = LeafCount(n)

\* the first recomputation of Deflate_DecodeByte for symbol a on the tree
\* of the state: [L, C] are the tree after the loop of Deflate_CheckTable
\* and the tree Deflate_CheckTable returns
FirstCheck(a) ==
    LET a2 == a + FirstLeaf
        t1 == [Tree EXCEPT !.weight[a2] = Short(Tree.weight[a2] + 1)]
    IN  [L |-> CheckTableLoop(t1, a2, Sibling(t1, a2)),
         C |-> CheckTable(t1, a2, Sibling(t1, a2))]

\* C23: a rescale happens exactly when a recomputation of the weights
\* during a symbol update leaves the root weight at 0x7D0; it replaces
\* each of the 1257 weights w by floor(w / 2) and nothing else, and at most
\* one rescale happens per symbol. (A root weight of 0x7D0 is therefore
\* never left standing.)
RescaleRule ==
    pc \in {"tree_init", "tree_upd"}
    => /\ array01[1] # 2000
       /\ \A a \in ScriptSyms :
             /\ DecodeByte(Tree, a).rescales <= 1
             /\ DecodeTable.parent[a + FirstLeaf] = 1
                  => DecodeByte(Tree, a).rescales = 0
             /\ DecodeTable.parent[a + FirstLeaf] # 1
                  => \E fc \in {FirstCheck(a)} :
                       /\ fc.L.rescales = 0
                       /\ fc.L.weight[1] # 2000 => fc.C = fc.L
                       /\ fc.L.weight[1] = 2000
                            => /\ fc.C.rescales = 1
                               /\ DecodeByte(Tree, a).rescales = 1
                               /\ DOMAIN fc.C.weight = 1..1257
                               /\ \A n \in 1..1257 :
                                     /\ 2 * fc.C.weight[n] <= fc.L.weight[n]
                                     /\ fc.L.weight[n] <= 2 * fc.C.weight[n] + 1
                               /\ fc.C.left = fc.L.left
                               /\ fc.C.right = fc.L.right
                               /\ fc.C.parent = fc.L.parent

\* the root stands at 1999 and the symbol that comes next takes it to
\* 0x7D0, with odd weights in the tree
RescaleRuleSeen ==
    /\ Updated
    /\ given # <<>>
    /\ array01[1] = 1999
    /\ given[1].n = 1
    /\ \E fc \in {FirstCheck(given[1].cycle[1])} :
          /\ fc.L.weight[1] = 2000
          /\ fc.C.weight[1] = 1000
          /\ \E n \in 2..1257 : fc.L.weight[n] % 2 = 1

\* the walk from node lookup along bits[bin + 1], bits[bin + 2], ..., left
\* on 0 and right on 1, until a leaf is reached or the bits are used up:
\* the node where it ends and the number of bits used
RECURSIVE Follow(_, _, _)
Follow(lookup, bits, bin) ==
    IF ~(lookup < FirstLeaf) \/ bin = Len(bits) THEN <<lookup, bin>>
    ELSE Follow(IF bits[bin + 1] = 0 THEN DecodeTable.left[lookup]
                                     ELSE DecodeTable.right[lookup],
                bits, bin + 1)

\* C24: in every reachable tree state the bits MakeBinary produces for a
\* leaf, followed from the root taking left on 0 and right on 1, end
\* exactly at that leaf, so that the check walk of the encoder arrives at
\* the symbol it is about to emit.
CodeWalk ==
    pc \in {"tree_init", "tree_upd"}
    => \A a \in ScriptSyms :
          \A code \in Codes(Tree, a + FirstLeaf) :
             Follow(1, code, 0) = <<a + FirstLeaf, Len(code)>>

\* C25: every read and every write of the window, by the decoder and by
\* the encoder, uses an index in 0..W-1 with W = 21903 (so no cell outside
\* 0..W-1 ever holds a byte), and the head is in 0..W-1 whenever a symbol
\* has been fully processed.
WindowBounds ==
    /\ DOMAIN allocPtr \subseteq 0..(Max - 1)
    /\ pc \in {"enc_main", "enc_end", "enc_done"} => incrBit \in 0..(Max - 1)
    /\ decHead \in 0..(WindowSize - 1)
    /\ copy.s0 \in 0..(WindowSize - 1)
    /\ copy.s1 \in 0..(WindowSize - 1)

\* the value Deflate_RescanByte returns for the bits of an extra field
RECURSIVE ExtraValue(_)
ExtraValue(bits) ==
    IF bits = <<>> THEN 0
    ELSE (IF bits[1] # 0 THEN 1 ELSE 0) + 2 * ExtraValue(Tail(bits))

\* the copy loop of Deflate_Decompress on the window w: n bytes from s0
\* to s1
RECURSIVE DecoderCopy(_, _, _, _)
DecoderCopy(w, s0, s1, n) ==
    IF n = 0 THEN w
    ELSE IF n = 1 THEN Put(w, s1, Cell(w, s0))
    ELSE LET h == n \div 2
         IN  CHOOSE r \in {DecoderCopy(w2, (s0 + h) % WindowSize,
                                       (s1 + h) % WindowSize, n - h) :
                              w2 \in {DecoderCopy(w, s0, s1, h)}} : TRUE

\* the window and the head of a decoder, d = [w, head], after the symbol s
DecoderSymbol(d, s) ==
    LET lookup == s.leaf + LeafBias
        mf     == MatchFields(lookup)
        a0     == d.head - ((tableVar01(mf.div) + ExtraValue(s.extra)) + mf.s8)
    IN  IF lookup = 256 THEN d
        ELSE IF lookup < 256
        THEN [w |-> Put(d.w, d.head, lookup % 256),
              head |-> IF d.head + 1 = WindowSize THEN 0 ELSE d.head + 1]
        ELSE [w |-> DecoderCopy(d.w,
                                IF a0 < 0 THEN a0 + WindowSize ELSE a0,
                                d.head, IF mf.s8 > 0 THEN mf.s8 ELSE 0),
              head |-> IF ~(d.head + mf.s8 < WindowSize)
                       THEN (d.head + mf.s8) - WindowSize
                       ELSE d.head + mf.s8]

\* the decoder after the symbols syms[lo..hi]
RECURSIVE DecoderSymbols(_, _, _, _)
DecoderSymbols(d, syms, lo, hi) ==
    IF lo > hi THEN d
    ELSE IF lo = hi THEN DecoderSymbol(d, syms[lo])
    ELSE CHOOSE r \in {DecoderSymbols(h, syms, ((lo + hi) \div 2) + 1, hi) :
                          h \in {DecoderSymbols(d, syms, lo,
                                                (lo + hi) \div 2)}} : TRUE

\* C26: each time the encoder has finished a symbol, its head and the
\* window cells 0..W-1 equal the head and the cells of a decoder that has
\* decoded the symbols emitted so far, also when a match crosses the end
\* of the window: a step of the encoder changes its head and those cells
\* as the decoder changes them on the symbols the step emits.
WindowSync ==
    [][Len(encSyms') > Len(encSyms)
       => \E d \in {DecoderSymbols([w |-> allocPtr, head |-> incrBit],
                                   encSyms', Len(encSyms) + 1,
                                   Len(encSyms'))} :
             /\ incrBit' = d.head
             /\ \A i \in (DOMAIN allocPtr' \cup DOMAIN d.w)
                             \cap (0..(WindowSize - 1)) :
                   Cell(allocPtr', i) = Cell(d.w, i)]_vars

\* the distance of the match symbol s: what the decoder subtracts from its
\* head
SymDistance(s) ==
    LET mf == MatchFields(s.leaf + LeafBias)
    IN  (tableVar01(mf.div) + ExtraValue(s.extra)) + mf.s8

LastSym == encSyms[Len(encSyms)]

\* the number of bytes, up to MaxCount, over which the window from cell st
\* on equals the input from incrBitFile on
RunLen(st) ==
    CHOOSE l \in 0..MaxCount :
        /\ \A x \in 0..(l - 1) :
              Cell(allocPtr, st + x) = InByte(incrBitFile + x)
        /\ l = MaxCount \/ Cell(allocPtr, st + l) # InByte(incrBitFile + l)

\* the greatest length of a window range that starts at st, ends before
\* the head and equals the upcoming input
CandMax(st) == Min(RunLen(st), incrBit - st)

\* the starts the search can reach
CandStarts ==
    (IF incrBit - (SearchDepth + MaxCount) > 0
     THEN incrBit - (SearchDepth + MaxCount) ELSE 0)..(incrBit - MinCount)

\* C27: when the encoder emits a match of length L from window start s, no
\* candidate in the searched range (length 3..64, start >= 0, distance from
\* the head between the length and the length + 1024) equals the upcoming
\* input over a length greater than L, and no candidate of length L has a
\* start greater than s; when it emits a literal, no candidate of length 3
\* or more exists.
SearchBest ==
    [][(pc = "enc_main" /\ pc' = "enc_main"
            /\ Len(encSyms') = Len(encSyms) + 1)
       => \A st \in CandStarts : \A m \in {CandMax(st)} :
            \A j \in MinCount..m :
               (incrBit - st) <= j + SearchDepth
               => /\ LastSym'.n >= MinCount
                  /\ j <= LastSym'.n
                  /\ j = LastSym'.n => st <= incrBit - SymDistance(LastSym')
      ]_vars

\* C28: every match the encoder emits has a length L in 3..64 and a
\* distance D with L <= D <= 1024 + L; hence it only emits match symbols of
\* the buckets 0 to 3 (below 0x046E), never of the buckets 4 or 5.
MatchRange ==
    \A i \in DOMAIN encSyms :
        encSyms[i].leaf >= BandCode[1]
        => /\ encSyms[i].n \in MinCount..MaxCount
           /\ encSyms[i].n <= SymDistance(encSyms[i])
           /\ SymDistance(encSyms[i]) <= SearchDepth + encSyms[i].n
           /\ encSyms[i].leaf < BandCode[5]

\* C29: for every match the encoder emits, the extra value rest -
\* base[bucket] - len lies in 0..2^extra_bits[bucket] - 1 for the bucket it
\* selected, so the decoder's base[bucket] + extra + len equals the distance
\* rest of the match the search found; the case of a match that cannot be
\* encoded (no bucket holds rest) never occurs.
ExtraFits ==
    [][(pc = "enc_main" /\ pc' = "enc_main"
            /\ Len(encSyms') = Len(encSyms) + 1)
       => \A sr \in {Search(Enc)} :
            sr.copy
            => LET rest == incrBit - (sr.offset - sr.j)
               IN  /\ \A row \in CountTable(sr.j + 1) : Bucket(rest, row) < 6
                   /\ LastSym'.leaf >= BandCode[1]
                      => LET mf == MatchFields(LastSym'.leaf + LeafBias)
                         IN  /\ (rest - tableVar01(mf.div)) - LastSym'.n
                                   \in 0..(Pow2(mf.bits) - 1)
                             /\ Len(LastSym'.extra) = mf.bits
                             /\ SymDistance(LastSym') = rest
      ]_vars

\* the cells the copy under way has written
CopyWritten == {(decHead + i) % WindowSize : i \in 0..(copy.s2 - 1)}

\* the encoder has finished one pass of its main loop with a match
MatchEmitted ==
    /\ pc = "enc_main"
    /\ pc' = "enc_main"
    /\ Len(encSyms') = Len(encSyms) + 1
    /\ LastSym'.leaf >= BandCode[1]

\* C30 as stated: match copies can be self-referential. A decoder copy
\* whose source index equals the head at its start reads, from its second
\* pass on, the byte that its pass before has written (a run-length
\* repetition), and for a run of identical input bytes the encoder emits
\* matches whose source range overlaps their destination (a distance below
\* the length).
SelfCopy ==
    [][/\ (pc = "dec_copy" /\ copy.s2 # copy.s3 /\ copy.s0 = copy.s1
              /\ copy.s2 > 0)
          => Cell(allocPtr, copy.s0)
                = Cell(allocPtr, (copy.s1 + (WindowSize - 1)) % WindowSize)
       /\ (MatchEmitted
              /\ \A i \in 0..(LastSym'.n - 1) :
                    InByte(incrBitFile + i) = InByte(incrBitFile - 1))
          => SymDistance(LastSym') < LastSym'.n
      ]_vars

\* C30: match copies are never self-referential. The distance of a match
\* is base + extra + length, never below the length, so no pass of a
\* decoder copy reads a cell that the same copy has written; a copy whose
\* source index equals the head at its start (distance W) reads each cell
\* before it stores the same byte there and leaves the window as it was;
\* and the range that the encoder's search finds ends at or before the
\* head, also for a run of identical input bytes.
CopyReadsOld ==
    [][/\ (pc = "dec_copy" /\ copy.s2 # copy.s3)
          => /\ copy.s0 \notin CopyWritten
             /\ copy.s0 = copy.s1 => allocPtr' = allocPtr
       /\ MatchEmitted
          => /\ LastSym'.n <= SymDistance(LastSym')
             /\ \A sr \in {Search(Enc)} :
                   sr.copy /\ (sr.offset - sr.j) + (sr.j + 1) <= incrBit
      ]_vars

\* a copy whose source is the head has stored two bytes that differ, in a
\* process whose encoder has emitted a match for a run of identical bytes
CopyReadsOldSeen ==
    /\ pc = "dec_copy"
    /\ copy.s0 = copy.s1
    /\ copy.s2 >= 2
    /\ Cell(allocPtr, (copy.s1 + (WindowSize - 1)) % WindowSize)
          # Cell(allocPtr, (copy.s1 + (WindowSize - 2)) % WindowSize)
    /\ \E i \in DOMAIN encSyms :
          /\ encSyms[i].leaf >= BandCode[1]
          /\ \A x \in 1..Len(encIn) : encIn[x] = encIn[1]

\* the payload of the symbol the decoder handles: v - 1, v being the leaf
\* id less 0x0274
Payload == (LastLeaf - 628) - 1

\* C31 as stated: with v = leaf id - 0x0274 returned by the tree walk and
\* the payload p = v - 1, the decoder stops exactly when p = 0 and outputs
\* the literal byte p - 1 when 1 <= p <= 256.
PayloadStated ==
    [][pc = "dec_body"
       => /\ pc' = "dec_done" <=> Payload = 0
          /\ Payload \in 1..256
                => /\ decOut' = Append(decOut, Payload - 1)
                   /\ allocPtr' = Put(allocPtr, decHead, Payload - 1)]_vars

\* C31: with v = leaf id - 0x0274 and the payload p = v - 1, which is the
\* value Deflate_StartDecodeByte returns, the decoder stops exactly when
\* p = 256 (the leaf 0x0375) and outputs the literal byte p, to the output
\* and to the window, when 0 <= p <= 255.
PayloadRule ==
    [][pc = "dec_body"
       => /\ v0 = Payload
          /\ pc' = "dec_done" <=> Payload = 256
          /\ Payload \in 0..255
                => /\ decOut' = Append(decOut, Payload)
                   /\ allocPtr' = Put(allocPtr, decHead, Payload)]_vars

\* a decode that has output the byte 65 for the leaf 0x0275 + 65 has
\* stopped at the leaf 0x0375
PayloadRuleSeen ==
    /\ pc = "dec_done"
    /\ LastLeaf = EndLeaf
    /\ decSyms[1] = FirstLeaf + 65
    /\ decOut # <<>>
    /\ decOut[1] = 65

\* C32: for every input of at least 14 bytes, the first size bytes of the
\* decoder's output for the encoder's stream equal the input, whatever the
\* encoder emits for the positions at or beyond size.
PrefixBack ==
    (ReadBack /\ encSize >= Prelude)
    => /\ Len(decOut) >= encSize
       /\ \A i \in 1..encSize : decOut[i] = encIn[i]

\* an encode is under way
Encoding == pc \in {"enc_prelude", "enc_main", "enc_end"}

\* C33: every encode terminates: each pass of the main loop advances the
\* input position by at least 1, the leaf-to-root walk of MakeBinary for
\* each symbol emitted finds the current node in the left or the right
\* child table at each step and reaches the root, and an encode that has
\* begun reaches its end.
EncodeTerminates ==
    /\ [][/\ (pc = "enc_main" /\ pc' = "enc_main")
                => incrBitFile' >= incrBitFile + 1
          /\ Encoding => EncodeRuns /\ <<pc, incrBitFile>>' # <<pc, incrBitFile>>
          /\ (Encoding /\ Len(encSyms') = Len(encSyms) + 1)
                => \E r \in {MakeBinaryLoop(Tree, LastSym'.leaf, <<>>)} :
                      /\ r.ok
                      /\ Len(r.Binary) >= 1]_vars
    /\ Encoding ~> (pc = "enc_done")

\* an encode with literals and a match has reached its end
EncodeTerminatesSeen ==
    /\ pc = "enc_done"
    /\ \E i \in DOMAIN encSyms : encSyms[i].leaf >= BandCode[1]
    /\ \E i \in DOMAIN encSyms : encSyms[i].leaf < EndLeaf
    /\ LastSym.leaf = EndLeaf

\* ------------------------------------------------------------------------
\* The archive functions of main.cpp
\* ------------------------------------------------------------------------
\* the sizes of the first i entries of the directory d
RECURSIVE SizesBefore(_, _)
SizesBefore(d, i) == IF i = 0 THEN 0 ELSE SizesBefore(d, i - 1) + d[i].size

\* the bytes entry i of the directory read takes in the input file
InputStored(i) ==
    (IF i < wad.input.numlumps THEN wad.input.lump_directory[i + 1].filepos
     ELSE wad.input.infotableofs) - wad.input.lump_directory[i].filepos

Decompressed == wad.op = "decompress_WAD" /\ wad.at = "done"

\* what C34 states of the file decompress_WAD has written
Contiguous ==
    /\ wad.written[1].filepos = HeaderSize
    /\ \A i \in 2..Len(wad.written) :
          wad.written[i].filepos
              = wad.written[i - 1].filepos + wad.written[i - 1].size
    /\ wad.header.infotableofs
          = HeaderSize + SizesBefore(wad.written, Len(wad.written))
    /\ wad.header.infotableofs = HeaderSize + Len(wad.body)
    /\ \A i \in 1..Len(wad.written) :
          InputStored(i) > 0 => wad.written[i].name.bit = 0

\* C34: after decompress_WAD the output archive is contiguous: lump 0 is
\* at offset 12, every other lump's position is the previous lump's
\* position plus its size, the header's directory offset is 12 plus the
\* sum of the lump sizes and is the number of bytes written before the
\* directory, and no lump whose data was processed keeps the compressed
\* bit in its name.
ContiguousOut == Decompressed => Contiguous

Padded == wad.op = "pad_WAD" /\ wad.at = "done"

\* the bytes of entry i of the directory written, as the output holds them
PaddedBytes(i) ==
    SubSeq(wad.body, wad.written[i].filepos - HeaderSize + 1,
           wad.written[i].filepos - HeaderSize + wad.written[i].size)

\* C35: after pad_WAD every lump's size in the directory is the smallest
\* multiple of 4 not below its original size, the added bytes are zero and
\* the original bytes unchanged, lump 0 is at offset 12, every other
\* lump's position is the previous position plus the previous padded size
\* (so every position is a multiple of 4), and the header's directory
\* offset is 12 plus the sum of the padded sizes.
PaddedOut ==
    Padded =>
       /\ Len(wad.written) = wad.input.numlumps
       /\ \A i \in 1..Len(wad.written) :
             LET old == wad.input.lump_directory[i]
                 new == wad.written[i]
             IN  /\ new.size % 4 = 0
                 /\ new.size >= old.size
                 /\ new.size - 4 < old.size
                 /\ new.name = old.name
                 /\ Len(PaddedBytes(i)) = new.size
                 /\ \A j \in 1..old.size :
                       PaddedBytes(i)[j] = [by |-> "file",
                                            from |-> old.filepos,
                                            at |-> j - 1]
                 /\ \A j \in (old.size + 1)..new.size :
                       PaddedBytes(i)[j].by = "memset"
                 /\ new.filepos % 4 = 0
       /\ wad.written[1].filepos = HeaderSize
       /\ \A i \in 2..Len(wad.written) :
             wad.written[i].filepos
                 = wad.written[i - 1].filepos + wad.written[i - 1].size
       /\ wad.header.infotableofs
             = HeaderSize + SizesBefore(wad.written, Len(wad.written))
       /\ wad.header.numlumps = wad.input.numlumps

\* an archive of three lumps is padded: one lump grew by three bytes, one
\* of a size that is a multiple of 4 kept it, and a lump follows a grown
\* one
PaddedOutSeen ==
    /\ Padded
    /\ wad.input.numlumps = 3
    /\ wad.input.lump_directory[1].size = 5
    /\ wad.written[1].size = 8
    /\ wad.input.lump_directory[2].size = 4
    /\ wad.written[2].size = 4
    /\ wad.written[3].filepos = 24
    /\ wad.written[3].size > 0

\* the mode a marker name selects, "" for every other name
MarkerMode(name) ==
    IF name \in {LumpName(0, "S_START"), LumpName(0, "T_END")}
    THEN DECODE_JAGUAR
    ELSE IF name \in {LumpName(0, "T_START"), LumpName(0, "MAP01"),
                      LumpName(1, "MAP01")}
    THEN DECODE_D64
    ELSE ""

\* the mode set by the last marker among the names of the first c lumps
\* processed, DECODE_NONE when there is none
LastMarkerMode(c) ==
    LET seen == {j \in 1..c : MarkerMode(wad.calls[j].name) # ""}
    IN  IF seen = {} THEN DECODE_NONE
        ELSE MarkerMode(wad.calls[
                 CHOOSE j \in seen : \A x \in seen : x <= j].name)

\* C36: while the lumps are processed in directory order, the decode mode
\* used for a lump is the one set by the last marker name at or before it
\* (S_START and T_END select the Jaguar codec, T_START and MAP01, the
\* latter with or without the compressed bit, the D64 codec); any other
\* name leaves the mode unchanged, and before the first marker the mode is
\* DECODE_NONE, in which no codec is run.
ModeByMarker ==
    wad.op = "decompress_WAD" =>
       \A c \in 1..Len(wad.calls) :
          /\ wad.calls[c].mode = LastMarkerMode(c)
          /\ wad.calls[c].name.text
                = wad.input.lump_directory[wad.calls[c].lump + 1].name.text
          /\ wad.calls[c].ran = "DecodeJaguar"
                => wad.calls[c].mode = DECODE_JAGUAR
          /\ wad.calls[c].ran = "DecodeD64"
                => wad.calls[c].mode = DECODE_D64
          /\ wad.calls[c].ran = "malloc" => wad.calls[c].mode = DECODE_NONE
          /\ wad.calls[c].ran \in {"DecodeJaguar", "DecodeD64", "malloc"}
                <=> (wad.calls[c].name.bit = 1
                        /\ wad.calls[c].ran # "return")
          /\ c > 1 => wad.calls[c].lump >= wad.calls[c - 1].lump

\* a compressed lump before the first marker was written as allocated, the
\* same lump after S_START went through the Jaguar codec, and a compressed
\* lump after T_START through the D64 codec
ModeByMarkerSeen ==
    /\ Decompressed
    /\ wad.input.numlumps = 3
    /\ wad.calls[1].ran = "malloc"
    /\ wad.input.lump_directory[2].name = LumpName(0, "S_START")
    /\ wad.calls[3].ran = "DecodeJaguar"

\* the next step of the tree on its own is a single update of symbol a
OneUpdate(a) ==
    /\ pc \in {"tree_init", "tree_upd"}
    /\ given # <<>>
    /\ given[1] = Run(<<a>>, 1)

\* C37: when the leaf of the processed symbol is a child of the root, the
\* update changes nothing but that leaf's weight: no link changes, no
\* weight of an ancestor, the root's included, is recomputed and no rescale
\* is checked.
RootChildUpdate ==
    [][\A a \in ScriptSyms :
          (OneUpdate(a) /\ DecodeTable.parent[a + FirstLeaf] = 1)
             => /\ DecodeTable' = DecodeTable
                /\ array01' = [array01 EXCEPT ![a + FirstLeaf] =
                                                  Short(@ + 1)]]_vars

\* the sixth update of a symbol has found its leaf right below the root
\* and has left the weight of the root as it was
RootChildUpdateSeen ==
    /\ pc = "tree_upd"
    /\ given = Tail(Tail(RootScript))
    /\ DecodeTable.parent[65 + FirstLeaf] = 1
    /\ array01[65 + FirstLeaf] = 7
    /\ array01[1] # array01[DecodeTable.left[1]] + array01[DecodeTable.right[1]]

\* a pass of the main loop has ended with one more symbol sent
PassDone ==
    /\ pc = "enc_main"
    /\ pc' = "enc_main"
    /\ Len(encSyms') = Len(encSyms) + 1

\* C38: whenever the match search reports a match, the verification replay
\* confirms it: the pass sends a match symbol, never a literal, and the
\* check walk and the replay change neither the tree nor the queue of
\* pending bits: the symbol sent is coded on the tree as the pass found it,
\* the tree is updated once, for that symbol, and the queue and the file
\* gain the bits of that symbol and nothing else.
ReplayConfirms ==
    [][PassDone
       => /\ Search(Enc).copy => LastSym'.leaf >= BandCode[1]
          /\ LastSym'.code \in Codes(Tree, LastSym'.leaf)
          /\ Tree' = DecodeByte(Tree, LastSym'.leaf + LeafBias)
          /\ MakeByte([q |-> BinCode \o LastSym'.code \o LastSym'.extra,
                       f |-> OutFile, n |-> OutputSize])
                = [q |-> BinCode', f |-> OutFile', n |-> OutputSize']]_vars

\* the number of steps from node n up to the root
RECURSIVE Depth(_)
Depth(n) == IF n <= 1 THEN 0 ELSE 1 + Depth(DecodeTable.parent[n])

\* C39: in every reachable tree state every leaf is at depth 16 or less, so
\* the leaf-to-root walk of MakeBinary never records more steps than the 16
\* entries its Binary buffer holds.
DepthBound ==
    pc \in {"tree_init", "tree_upd"}
    => /\ \A n \in FirstLeaf..NumNodes : Depth(n) <= BinarySize
       /\ \A a \in ScriptSyms :
             Len(MakeBinaryLoop(Tree, a + FirstLeaf, <<>>).Binary)
                <= BinarySize

====
